---- MODULE Spec2Model ----
(***************************************************************************)
(* Unity Export Validator (Blender add-on): the checker contract, the      *)
(* checker registry and the validate operator, modelled from the Python    *)
(* sources.                                                                *)
(*                                                                         *)
(* Conventions                                                             *)
(*  - A Python str that the code only compares or stores is a TLA+ string. *)
(*    A str the code takes apart (the class name in get_id) is a tuple of  *)
(*    one-character strings.                                               *)
(*  - A Python dict is a sequence of [key, value] entries in insertion     *)
(*    order (dicts keep insertion order; assigning to a present key keeps  *)
(*    the key's position).                                                 *)
(*  - Lengths are integers in units of 1e-7, so 1.0 is One.                *)
(***************************************************************************)
EXTENDS Integers, Sequences, FiniteSets, TLC

VARIABLES
    objects,                  \* bpy.data.objects: the scene's objects, in order
    _checkers,                \* CheckerRegistry._checkers      (id -> instance)
    _checker_classes,         \* CheckerRegistry._checker_classes (id -> class)
    unity_validator_results,  \* scene.unity_validator_results
    unity_validator_result_index,  \* scene.unity_validator_result_index
    addon_registered,         \* the add-on's register() has run, unregister() not
    last                      \* the last call: operation, arguments, outcome

vars == <<objects, _checkers, _checker_classes, unity_validator_results,
          unity_validator_result_index, addon_registered, last>>

\* what only the operators of select_problem.py and the add-on's
\* register() and unregister() write
host == <<unity_validator_result_index, addon_registered>>

(***************************************************************************)
(* Sequence helpers.                                                       *)
(***************************************************************************)
Range(s) == {s[i] : i \in 1..Len(s)}

(***************************************************************************)
(* Severity (core/severity.py).                                            *)
(***************************************************************************)
INFO == 1
WARNING == 2
ERROR == 3
Severity == {INFO, WARNING, ERROR}

SeverityName(s) ==
    CASE s = INFO -> "INFO"
      [] s = WARNING -> "WARNING"
      [] s = ERROR -> "ERROR"

(***************************************************************************)
(* Python str operations on tuples of characters.                          *)
(***************************************************************************)
UpperChars ==
    <<"A","B","C","D","E","F","G","H","I","J","K","L","M",
      "N","O","P","Q","R","S","T","U","V","W","X","Y","Z">>
LowerChars ==
    <<"a","b","c","d","e","f","g","h","i","j","k","l","m",
      "n","o","p","q","r","s","t","u","v","w","x","y","z">>

\* str.lower() of one character
LowerChar(ch) ==
    IF \E i \in 1..Len(UpperChars) : UpperChars[i] = ch
    THEN LowerChars[CHOOSE i \in 1..Len(UpperChars) : UpperChars[i] = ch]
    ELSE ch

\* str.lower()
StrLower(s) == [i \in 1..Len(s) |-> LowerChar(s[i])]

\* str.endswith(suffix)
EndsWith(s, suffix) ==
    /\ Len(s) >= Len(suffix)
    /\ SubSeq(s, Len(s) - Len(suffix) + 1, Len(s)) = suffix

CheckerSuffix == <<"C","h","e","c","k","e","r">>

RECURSIVE JoinStr(_, _)
\* sep.join(parts) for a sequence of strings
JoinStr(parts, sep) ==
    IF Len(parts) = 0 THEN ""
    ELSE IF Len(parts) = 1 THEN parts[1]
         ELSE parts[1] \o sep \o JoinStr(Tail(parts), sep)

\* the characters of s as one string
Str(s) == JoinStr(s, "")

(***************************************************************************)
(* The checker classes of the model.  TransformChecker and MaterialChecker *)
(* are the add-on's own; the others are plug-in subclasses of BaseChecker  *)
(* of the kind its docstring shows, one for each way a subclass can differ *)
(* in the attributes the contract reads.  A class is named by a tag.       *)
(***************************************************************************)
CheckerClasses ==
    {"TransformChecker", "MaterialChecker", "Transform", "Material",
     "MATERIAL", "MyChecker"}

\* cls.__name__
ClassName(cls) ==
    CASE cls = "TransformChecker" ->
            <<"T","r","a","n","s","f","o","r","m","C","h","e","c","k","e","r">>
      [] cls = "MaterialChecker" ->
            <<"M","a","t","e","r","i","a","l","C","h","e","c","k","e","r">>
      [] cls = "Transform" -> <<"T","r","a","n","s","f","o","r","m">>
      [] cls = "Material" -> <<"M","a","t","e","r","i","a","l">>
      [] cls = "MATERIAL" -> <<"M","A","T","E","R","I","A","L">>
      [] cls = "MyChecker" -> <<"M","y","C","h","e","c","k","e","r">>
      [] cls = "UVChecker" -> <<"U","V","C","h","e","c","k","e","r">>
      [] cls = "GeometryChecker" ->
            <<"G","e","o","m","e","t","r","y","C","h","e","c","k","e","r">>
      [] cls = "FaceOrientationChecker" ->
            <<"F","a","c","e","O","r","i","e","n","t","a","t","i","o","n",
              "C","h","e","c","k","e","r">>

\* cls.name ("" is BaseChecker's default: the subclass did not define it)
ClassDisplayName(cls) ==
    CASE cls = "TransformChecker" -> "Transform"
      [] cls = "MaterialChecker" -> "Material"
      [] cls = "Transform" -> "Curve Transform"
      [] cls = "Material" -> "Material Override"
      [] cls = "MATERIAL" -> "Material Draft"
      [] cls = "MyChecker" -> ""
      [] cls = "UVChecker" -> "UV Map"
      [] cls = "GeometryChecker" -> "Geometry"
      [] cls = "FaceOrientationChecker" -> "Face Orientation"

\* cls.description ("" is BaseChecker's default)
ClassDescription(cls) ==
    CASE cls = "TransformChecker" -> "Check for unapplied transforms and negative scale"
      [] cls = "MaterialChecker" -> "Check for missing or improperly assigned materials"
      [] cls = "Transform" -> "Checks for something"
      [] cls = "Material" -> "Checks for something"
      [] cls = "MATERIAL" -> ""
      [] cls = "MyChecker" -> "Checks for something"
      [] cls = "UVChecker" -> "Check for missing or invalid UV maps"
      [] cls = "GeometryChecker" -> "Check for N-gons and problematic geometry"
      [] cls = "FaceOrientationChecker" ->
            "Check for inverted or inconsistent face orientations"

\* cls.default_severity
ClassDefaultSeverity(cls) ==
    CASE cls = "Material" -> INFO
      [] cls = "UVChecker" -> ERROR
      [] OTHER -> WARNING

\* cls.supported_types
ClassSupportedTypes(cls) ==
    CASE cls = "Transform" -> {"CURVE"}
      [] OTHER -> {"MESH"}

\* cls.supports_exclusion
ClassSupportsExclusion(cls) ==
    CASE cls = "Material" -> FALSE
      [] OTHER -> TRUE

(***************************************************************************)
(* BaseChecker (core/base_checker.py).  A checker instance is a record     *)
(* [cls]: __init__ sets no attribute, so an instance is its class's        *)
(* attributes and nothing else.                                            *)
(***************************************************************************)
\* __init__ that tests the name alone
InitRaises_NameOnly(cls) == ClassDisplayName(cls) = ""

\* BaseChecker.__init__ raises ValueError
InitRaises(cls) ==
    \/ ClassDisplayName(cls) = ""
    \/ ClassDescription(cls) = ""

\* get_id that folds the case before it looks for the suffix
ClassId_FoldsFirst(class_name) ==
    LET folded == StrLower(class_name)
    IN  IF EndsWith(folded, StrLower(CheckerSuffix))
        THEN SubSeq(folded, 1, Len(folded) - 7)
        ELSE folded

\* the body of BaseChecker.get_id, on class_name = self.__class__.__name__
ClassId(class_name) ==
    StrLower(IF EndsWith(class_name, CheckerSuffix)
             THEN SubSeq(class_name, 1, Len(class_name) - 7)
             ELSE class_name)

\* BaseChecker.get_id of an instance of cls
get_id(cls) == ClassId(ClassName(cls))

\* BaseChecker.is_supported
is_supported(self, obj) == obj.type \in ClassSupportedTypes(self.cls)

ExclusionPrefix == "unity_validator_exclude_"

\* the custom-property name prefix + checker id; the two parts are kept apart
PropName(prefix, id) == <<prefix, id>>

\* obj.get(key, default): obj.props is the object's custom-property bag
ObjGet(obj, key, default) ==
    IF key \in DOMAIN obj.props THEN obj.props[key] ELSE default

\* Python truth value of a custom-property value (an int) 
Truthy(v) == v # 0

\* is_excluded without the supports_exclusion test
is_excluded_IgnoresSupport(self, obj) ==
    Truthy(ObjGet(obj, PropName(ExclusionPrefix, get_id(self.cls)), 0))

\* BaseChecker.is_excluded (the value returned, taken as a truth value)
is_excluded(self, obj) ==
    IF ~ClassSupportsExclusion(self.cls) THEN FALSE
    ELSE LET prop_name == PropName(ExclusionPrefix, get_id(self.cls))
         IN  Truthy(ObjGet(obj, prop_name, 0))

\* Python's None where the code expects an optional str
None == "<None>"

\* __post_init__ that tests the checker_name alone
PostInitRaises_NameOnly(r) == r.checker_name = ""

\* ValidationResult.__post_init__ raises ValueError
PostInitRaises(r) == r.checker_name = "" \/ r.message = ""

\* the text of the ValueError of __post_init__
PostInitError(r) ==
    IF r.checker_name = "" THEN "checker_name cannot be empty"
    ELSE "message cannot be empty"

\* BaseChecker.create_result: the ValidationResult it constructs
create_result(self, obj, message, severity, details, fix_hint) ==
    [checker_name |-> ClassDisplayName(self.cls),
     severity |-> severity,
     object_name |-> obj.name,
     message |-> message,
     details |-> details,
     fix_hint |-> fix_hint]

\* what a check() call hands to its caller: the list it returns, or a raise
Raises(error) == [raised |-> TRUE, error |-> error, results |-> <<>>]
Returns(results) ==
    IF \E i \in 1..Len(results) : PostInitRaises(results[i])
    THEN Raises(PostInitError(results[CHOOSE i \in 1..Len(results) :
                                          /\ PostInitRaises(results[i])
                                          /\ \A j \in 1..(i - 1) :
                                                 ~PostInitRaises(results[j])]))
    ELSE [raised |-> FALSE, error |-> "", results |-> results]

(***************************************************************************)
(* Number formatting.  Lengths and angles are integers in units of 1e-7.   *)
(***************************************************************************)
FLOAT_TOLERANCE == 10
One == FLOAT_TOLERANCE * 1000000

Abs(v) == IF v < 0 THEN 0 - v ELSE v

\* the decimal digits of n >= 0, at least width of them
RECURSIVE Digits(_, _)
Digits(n, width) ==
    IF n < 10 /\ width <= 1 THEN ToString(n)
    ELSE Digits(n \div 10, width - 1) \o ToString(n % 10)

\* f"{v:.3f}" of the length v
Fmt3(v) ==
    LET q == (Abs(v) + 5000) \div 10000
    IN  (IF v < 0 THEN "-" ELSE "") \o Digits(q \div 1000, 1) \o "." \o Digits(q % 1000, 3)

\* str(round(r * 57.2958, 2)) of the angle r, for |r| below 3.7e-4 rad
FmtDegrees(r) ==
    LET h == (((Abs(r) * 572958) \div 10000000) + 50) \div 100
        frac == h % 100
    IN  (IF r < 0 THEN "-" ELSE "") \o Digits(h \div 100, 1) \o "." \o
        (IF frac % 10 = 0 THEN Digits(frac \div 10, 1) ELSE Digits(frac, 2))

(***************************************************************************)
(* TransformChecker (checkers/transform.py).  obj.scale and                *)
(* obj.rotation_euler are triples <<x, y, z>>.                             *)
(***************************************************************************)
\* is_nearly_equal with the default tolerance
is_nearly_equal(a, b) == Abs(a - b) < FLOAT_TOLERANCE

\* is_vector_nearly_equal with the default tolerance
is_vector_nearly_equal(vec, target) ==
    \A i \in 1..3 : is_nearly_equal(vec[i], target[i])

\* _check_negative_scale that takes any negative axis for an inversion
_check_negative_scale_AnyAxisInverts(self, obj) ==
    LET scale == obj.scale
        negative_axes ==
            (IF scale[1] < 0 THEN <<"X">> ELSE <<>>) \o
            (IF scale[2] < 0 THEN <<"Y">> ELSE <<>>) \o
            (IF scale[3] < 0 THEN <<"Z">> ELSE <<>>)
        is_inverted == Len(negative_axes) > 0
    IN  IF negative_axes # <<>>
        THEN <<create_result(self, obj,
                   "Negative scale on " \o JoinStr(negative_axes, ", ") \o " axis",
                   ERROR,
                   [scale |-> scale,
                    negative_axes |-> negative_axes,
                    normals_inverted |-> is_inverted],
                   "Apply scale with Ctrl+A > Scale, or use Object > Apply > Scale")>>
        ELSE <<>>

\* TransformChecker._check_negative_scale: <<>> for None, else <<result>>
_check_negative_scale(self, obj) ==
    LET scale == obj.scale
        negative_axes ==
            (IF scale[1] < 0 THEN <<"X">> ELSE <<>>) \o
            (IF scale[2] < 0 THEN <<"Y">> ELSE <<>>) \o
            (IF scale[3] < 0 THEN <<"Z">> ELSE <<>>)
        is_inverted == Len(negative_axes) % 2 = 1
    IN  IF negative_axes # <<>>
        THEN <<create_result(self, obj,
                   "Negative scale on " \o JoinStr(negative_axes, ", ") \o " axis",
                   ERROR,
                   [scale |-> scale,
                    negative_axes |-> negative_axes,
                    normals_inverted |-> is_inverted],
                   "Apply scale with Ctrl+A > Scale, or use Object > Apply > Scale")>>
        ELSE <<>>

\* _check_unapplied_scale that compares the sizes of the components
_check_unapplied_scale_IgnoresSign(self, obj) ==
    LET scale == obj.scale
    IN  IF ~is_vector_nearly_equal([i \in 1..3 |-> Abs(scale[i])], <<One, One, One>>)
        THEN <<create_result(self, obj,
                   "Unapplied scale: (" \o Fmt3(scale[1]) \o ", " \o Fmt3(scale[2])
                       \o ", " \o Fmt3(scale[3]) \o ")",
                   WARNING,
                   [scale |-> scale, expected |-> <<One, One, One>>],
                   "Apply scale with Ctrl+A > Scale")>>
        ELSE <<>>

\* TransformChecker._check_unapplied_scale
_check_unapplied_scale(self, obj) ==
    LET scale == obj.scale
    IN  IF ~is_vector_nearly_equal(scale, <<One, One, One>>)
        THEN <<create_result(self, obj,
                   "Unapplied scale: (" \o Fmt3(scale[1]) \o ", " \o Fmt3(scale[2])
                       \o ", " \o Fmt3(scale[3]) \o ")",
                   WARNING,
                   [scale |-> scale, expected |-> <<One, One, One>>],
                   "Apply scale with Ctrl+A > Scale")>>
        ELSE <<>>

\* TransformChecker._check_unapplied_rotation
_check_unapplied_rotation(self, obj) ==
    LET rotation == obj.rotation_euler
    IN  IF ~is_vector_nearly_equal(rotation, <<0, 0, 0>>)
        THEN <<create_result(self, obj,
                   "Unapplied rotation: (" \o FmtDegrees(rotation[1]) \o "deg, "
                       \o FmtDegrees(rotation[2]) \o "deg, "
                       \o FmtDegrees(rotation[3]) \o "deg)",
                   INFO,
                   [rotation_euler |-> rotation, expected |-> <<0, 0, 0>>],
                   "Apply rotation with Ctrl+A > Rotation (if needed)")>>
        ELSE <<>>

\* TransformChecker.check with the class's configuration (all three checks on)
TransformCheck(self, obj) ==
    Returns(_check_negative_scale(self, obj)
            \o _check_unapplied_scale(self, obj)
            \o _check_unapplied_rotation(self, obj))

(***************************************************************************)
(* MaterialChecker (checkers/materials.py).  obj.material_slots is a       *)
(* sequence of slots [material_is_none, name]; slot i of the code is       *)
(* position i + 1.  obj.data is [is_none, polygons].                       *)
(***************************************************************************)
RECURSIVE _find_empty_slots_from(_, _)
_find_empty_slots_from(obj, i) ==
    IF i >= Len(obj.material_slots) THEN <<>>
    ELSE (IF obj.material_slots[i + 1].material_is_none THEN <<i>> ELSE <<>>)
         \o _find_empty_slots_from(obj, i + 1)

\* _find_empty_slots that returns at the first empty slot
_find_empty_slots_FirstOnly(obj) ==
    IF \E k \in 1..Len(obj.material_slots) : obj.material_slots[k].material_is_none
    THEN <<(CHOOSE k \in 1..Len(obj.material_slots) :
                /\ obj.material_slots[k].material_is_none
                /\ \A j \in 1..(k - 1) : ~obj.material_slots[j].material_is_none) - 1>>
    ELSE <<>>

\* MaterialChecker._find_empty_slots
_find_empty_slots(obj) == _find_empty_slots_from(obj, 0)

RECURSIVE _find_unused_slots_from(_, _, _)
_find_unused_slots_from(obj, used_indices, i) ==
    IF i >= Len(obj.material_slots) THEN <<>>
    ELSE (IF ~obj.material_slots[i + 1].material_is_none /\ i \notin used_indices
          THEN <<i>> ELSE <<>>)
         \o _find_unused_slots_from(obj, used_indices, i + 1)

\* _find_unused_slots that takes an empty slot for an unused one
_find_unused_slots_CountsEmpty(obj, mesh) ==
    IF Len(mesh.polygons) = 0 THEN <<>>
    ELSE LET used_indices ==
                 {mesh.polygons[k].material_index : k \in 1..Len(mesh.polygons)}
             Unused(i) == i \notin used_indices
         IN  SelectSeq([k \in 1..Len(obj.material_slots) |-> k - 1], Unused)

\* MaterialChecker._find_unused_slots, for a mesh that is not None
_find_unused_slots(obj, mesh) ==
    IF Len(mesh.polygons) = 0 THEN <<>>
    ELSE LET used_indices ==
                 {mesh.polygons[k].material_index : k \in 1..Len(mesh.polygons)}
         IN  _find_unused_slots_from(obj, used_indices, 0)

\* the slot names of the unused-slot finding
SlotNames(obj, unused_slots) ==
    [k \in 1..Len(unused_slots) |->
        LET i == unused_slots[k]
        IN  IF obj.material_slots[i + 1].name # ""
            THEN obj.material_slots[i + 1].name
            ELSE "Slot " \o ToString(i)]

\* ', '.join(map(str, indices))
JoinInts(indices) == JoinStr([k \in 1..Len(indices) |-> ToString(indices[k])], ", ")

\* MaterialChecker.check.  mesh.polygons of a mesh that is None raises
\* AttributeError, which leaves check() before it returns anything.
MaterialCheck(self, obj) ==
    IF obj.type # "MESH" THEN Returns(<<>>)
    ELSE IF Len(obj.material_slots) = 0
    THEN Returns(<<create_result(self, obj, "No material slots", ERROR,
                       [slot_count |-> 0],
                       "Add a material in the Material Properties panel")>>)
    ELSE
      LET mesh == obj.data
          empty_slots == _find_empty_slots(obj)
          empty_result ==
              IF empty_slots # <<>>
              THEN <<create_result(self, obj,
                         "Empty material slot(s): " \o JoinInts(empty_slots),
                         WARNING,
                         [empty_slot_indices |-> empty_slots,
                          total_slots |-> Len(obj.material_slots)],
                         "Assign materials to empty slots or remove unused slots")>>
              ELSE <<>>
          all_empty ==
              \A k \in 1..Len(obj.material_slots) :
                  obj.material_slots[k].material_is_none
          all_empty_result ==
              IF all_empty /\ Len(obj.material_slots) > 0
              THEN <<create_result(self, obj, "All material slots are empty", ERROR,
                         [slot_count |-> Len(obj.material_slots)],
                         "Assign at least one material")>>
              ELSE <<>>
      IN  IF mesh.is_none THEN Raises("'NoneType' object has no attribute 'polygons'")
          ELSE
            LET unused_slots == _find_unused_slots(obj, mesh)
                slot_names == SlotNames(obj, unused_slots)
                unused_result ==
                    IF unused_slots # <<>>
                    THEN <<create_result(self, obj,
                               "Unused material slot(s): " \o JoinStr(slot_names, ", "),
                               INFO,
                               [unused_slot_indices |-> unused_slots,
                                unused_slot_names |-> slot_names],
                               "Remove unused material slots or assign them to faces")>>
                    ELSE <<>>
            IN  Returns(empty_result \o all_empty_result \o unused_result)

(***************************************************************************)
(* Instance attributes.  A checker instance is a record with the field     *)
(* cls; a configuration attribute set on the instance is a further field,  *)
(* and an attribute the instance does not hold is read from its class.     *)
(***************************************************************************)
\* self.max_reported_faces
max_reported_faces(self) ==
    IF "max_reported_faces" \in DOMAIN self THEN self.max_reported_faces
    ELSE IF self.cls = "FaceOrientationChecker" THEN 20 ELSE 10

\* self.small_face_threshold, in units of 1e-5 square units
small_face_threshold(self) ==
    IF "small_face_threshold" \in DOMAIN self THEN self.small_face_threshold
    ELSE 10

(***************************************************************************)
(* UVChecker (checkers/uv.py).  mesh.uv_layers is a sequence of layers     *)
(* [name, data_len] with data_len = len(uv_layer.data); mesh.uv_active is  *)
(* the position of mesh.uv_layers.active, 0 for None; mesh.loops is        *)
(* len(mesh.loops).  check_uv2 is False in the class.                      *)
(***************************************************************************)
\* UVChecker._check_uv_validity
_check_uv_validity(mesh) ==
    IF mesh.uv_active = 0
    THEN [is_valid |-> FALSE, reason |-> "no_active_uv"]
    ELSE LET uv_layer == mesh.uv_layers[mesh.uv_active]
             expected_loops == mesh.loops
             actual_loops == uv_layer.data_len
         IN  IF uv_layer.data_len = 0
             THEN [is_valid |-> FALSE, reason |-> "no_uv_data"]
             ELSE IF expected_loops # actual_loops
             THEN [is_valid |-> FALSE, reason |-> "loop_count_mismatch",
                   expected |-> expected_loops, actual |-> actual_loops]
             ELSE [is_valid |-> TRUE, uv_name |-> uv_layer.name,
                   loop_count |-> actual_loops]

\* UVChecker.check
UVCheck(self, obj) ==
    IF obj.type # "MESH" THEN Returns(<<>>)
    ELSE LET mesh == obj.data
         IN  IF mesh.is_none
             THEN Raises("'NoneType' object has no attribute 'uv_layers'")
             ELSE IF Len(mesh.uv_layers) = 0
             THEN Returns(<<create_result(self, obj, "No UV map found", ERROR,
                                [uv_layer_count |-> 0,
                                 has_polygons |-> Len(mesh.polygons) > 0],
                                "Add a UV map: Edit Mode > UV > Unwrap (U key)")>>)
             ELSE
               LET active_result ==
                       IF mesh.uv_active = 0
                       THEN <<create_result(self, obj, "No active UV map", WARNING,
                                  [uv_layer_count |-> Len(mesh.uv_layers),
                                   uv_layer_names |->
                                       [k \in 1..Len(mesh.uv_layers) |->
                                           mesh.uv_layers[k].name]],
                                  "Set an active UV map in Object Data Properties > UV Maps")>>
                       ELSE <<>>
                   uv_validity == _check_uv_validity(mesh)
                   validity_result ==
                       IF ~uv_validity.is_valid
                       THEN <<create_result(self, obj, "UV map has incomplete data",
                                  WARNING, uv_validity,
                                  "Re-unwrap the mesh to regenerate UV data")>>
                       ELSE <<>>
               IN  Returns(active_result \o validity_result)

(***************************************************************************)
(* GeometryChecker (checkers/geometry.py).  A polygon is a record with     *)
(* loop_total and area (in units of 1e-5 square units); polygon i of the   *)
(* code is position i + 1.                                                 *)
(***************************************************************************)
\* the indices i of `for i, poly in enumerate(mesh.polygons)`, in order
PolygonIndices(mesh) == [k \in 1..Len(mesh.polygons) |-> k - 1]

\* a loop over the polygons that appends the offending indices in order and
\* breaks once the list has cap entries: the test is made after an append
\* only, so the list gets its first entry whatever the cap
ScanUntilCap(offending, cap) ==
    LET kept == IF cap < 1 THEN 1 ELSE cap
    IN  SubSeq(offending, 1, IF Len(offending) < kept THEN Len(offending) ELSE kept)

\* the first loop of _check_ngons with a quad taken for an n-gon
NgonScan_CountsQuads(self, mesh) ==
    LET IsNgon(i) == mesh.polygons[i + 1].loop_total >= 4
    IN  ScanUntilCap(SelectSeq(PolygonIndices(mesh), IsNgon), max_reported_faces(self))

\* the first loop of _check_ngons: ngon_indices at its end
NgonScan(self, mesh) ==
    LET IsNgon(i) == mesh.polygons[i + 1].loop_total > 4
    IN  ScanUntilCap(SelectSeq(PolygonIndices(mesh), IsNgon), max_reported_faces(self))

\* GeometryChecker._check_ngons: <<>> for None, else <<result>>
_check_ngons(self, obj, mesh) ==
    LET ngon_indices == NgonScan(self, mesh)
        ngon_vertex_counts ==
            [k \in 1..Len(ngon_indices) |-> mesh.polygons[ngon_indices[k] + 1].loop_total]
        total_ngons ==
            Cardinality({k \in 1..Len(mesh.polygons) : mesh.polygons[k].loop_total > 4})
        message ==
            IF total_ngons <= max_reported_faces(self)
            THEN ToString(total_ngons) \o " N-gon(s) found"
            ELSE ToString(total_ngons) \o " N-gon(s) found (showing first "
                 \o ToString(max_reported_faces(self)) \o ")"
    IN  IF ngon_indices = <<>> THEN <<>>
        ELSE <<create_result(self, obj, message, WARNING,
                   [total_ngons |-> total_ngons,
                    face_indices |-> ngon_indices,
                    vertex_counts |-> ngon_vertex_counts],
                   "Select N-gons: Edit Mode > Select > All by Trait > Faces by Sides")>>

\* the loop of _check_small_faces: small_face_indices at its end
SmallFaceScan(self, mesh) ==
    LET IsSmall(i) == mesh.polygons[i + 1].area < small_face_threshold(self)
    IN  ScanUntilCap(SelectSeq(PolygonIndices(mesh), IsSmall), max_reported_faces(self))

\* GeometryChecker._check_small_faces
_check_small_faces(self, obj, mesh) ==
    LET small_face_indices == SmallFaceScan(self, mesh)
        small_face_areas ==
            [k \in 1..Len(small_face_indices) |->
                mesh.polygons[small_face_indices[k] + 1].area]
        total_small ==
            Cardinality({k \in 1..Len(mesh.polygons) :
                            mesh.polygons[k].area < small_face_threshold(self)})
    IN  IF small_face_indices = <<>> THEN <<>>
        ELSE <<create_result(self, obj,
                   ToString(total_small) \o " extremely small face(s) found",
                   INFO,
                   [total_small_faces |-> total_small,
                    face_indices |-> small_face_indices,
                    face_areas |-> small_face_areas,
                    threshold |-> small_face_threshold(self)],
                   "Consider merging or dissolving tiny faces")>>

\* GeometryChecker.check (check_ngons and check_small_faces are True)
GeometryCheck(self, obj) ==
    IF obj.type # "MESH" THEN Returns(<<>>)
    ELSE LET mesh == obj.data
         IN  IF mesh.is_none
             THEN Raises("'NoneType' object has no attribute 'polygons'")
             ELSE Returns(_check_ngons(self, obj, mesh)
                          \o _check_small_faces(self, obj, mesh))

(***************************************************************************)
(* FaceOrientationChecker (checkers/face_orientation.py).  bmesh gives     *)
(* one face per polygon, face.index = i for polygon i.  toward_center is   *)
(* the value bmesh and mathutils deliver for                               *)
(* face.normal.dot(to_center.normalized()), in thousandths.  A mesh with a *)
(* polygon has vertices, so bm.verts is not empty where check() gets to    *)
(* _check_inverted_faces.                                                  *)
(***************************************************************************)
\* dot > 0.7
PointsInward(poly) == poly.toward_center > 700

\* the first loop of _check_inverted_faces: potentially_inverted at its end
InvertedScan(self, mesh) ==
    LET IsInward(i) == PointsInward(mesh.polygons[i + 1])
    IN  ScanUntilCap(SelectSeq(PolygonIndices(mesh), IsInward), max_reported_faces(self))

\* round(total_inverted / total_faces, 3) in thousandths, where the quotient
\* is no tie between two thousandths
RoundedRatio(total_inverted, total_faces) ==
    (2000 * total_inverted + total_faces) \div (2 * total_faces)

\* f"{inverted_ratio:.1%}"
FmtPercent(total_inverted, total_faces) ==
    LET q == RoundedRatio(total_inverted, total_faces)
    IN  Digits(q \div 10, 1) \o "." \o Digits(q % 10, 1) \o "%"

\* _check_inverted_faces that reports at INFO when either test holds
_check_inverted_faces_EitherTest(self, obj, mesh) ==
    LET potentially_inverted == InvertedScan(self, mesh)
        total_inverted ==
            Cardinality({k \in 1..Len(mesh.polygons) : PointsInward(mesh.polygons[k])})
        total_faces == Len(mesh.polygons)
        \* inverted_ratio < 0.05, as total_inverted / total_faces < 1 / 20
        ratio_below == 20 * total_inverted < total_faces
        details ==
            [potentially_inverted_count |-> total_inverted,
             total_faces |-> total_faces,
             face_indices |-> potentially_inverted,
             inverted_ratio |-> RoundedRatio(total_inverted, total_faces)]
    IN  IF potentially_inverted = <<>> THEN <<>>
        ELSE IF ratio_below \/ total_inverted < 5
        THEN <<create_result(self, obj,
                   ToString(total_inverted) \o " face(s) may have inverted normals",
                   INFO, details,
                   "Check normals: Viewport Overlays > Face Orientation")>>
        ELSE <<create_result(self, obj,
                   ToString(total_inverted) \o " face(s) may have inverted normals ("
                       \o FmtPercent(total_inverted, total_faces) \o ")",
                   WARNING, details,
                   "Fix normals: Edit Mode > Mesh > Normals > Recalculate Outside")>>

\* FaceOrientationChecker._check_inverted_faces
_check_inverted_faces(self, obj, mesh) ==
    LET potentially_inverted == InvertedScan(self, mesh)
        total_inverted ==
            Cardinality({k \in 1..Len(mesh.polygons) : PointsInward(mesh.polygons[k])})
        total_faces == Len(mesh.polygons)
        \* inverted_ratio < 0.05, as total_inverted / total_faces < 1 / 20
        ratio_below == 20 * total_inverted < total_faces
        details ==
            [potentially_inverted_count |-> total_inverted,
             total_faces |-> total_faces,
             face_indices |-> potentially_inverted,
             inverted_ratio |-> RoundedRatio(total_inverted, total_faces)]
    IN  IF potentially_inverted = <<>> THEN <<>>
        ELSE IF ratio_below /\ total_inverted < 5
        THEN <<create_result(self, obj,
                   ToString(total_inverted) \o " face(s) may have inverted normals",
                   INFO, details,
                   "Check normals: Viewport Overlays > Face Orientation")>>
        ELSE <<create_result(self, obj,
                   ToString(total_inverted) \o " face(s) may have inverted normals ("
                       \o FmtPercent(total_inverted, total_faces) \o ")",
                   WARNING, details,
                   "Fix normals: Edit Mode > Mesh > Normals > Recalculate Outside")>>

\* FaceOrientationChecker.check
FaceOrientationCheck(self, obj) ==
    IF obj.type # "MESH" THEN Returns(<<>>)
    ELSE LET mesh == obj.data
         IN  IF mesh.is_none
             THEN Raises("'NoneType' object has no attribute 'polygons'")
             ELSE IF Len(mesh.polygons) = 0 THEN Returns(<<>>)
             ELSE Returns(_check_inverted_faces(self, obj, mesh))

(***************************************************************************)
(* The plug-in classes' check(): one finding at the class's default        *)
(* severity, built with create_result as in BaseChecker's docstring.       *)
(***************************************************************************)
PluginCheck(self, obj) ==
    Returns(<<create_result(self, obj, "Checked",
                  ClassDefaultSeverity(self.cls), [checked |-> TRUE], None)>>)

\* checker.check(obj), dispatched on the instance's class
check(self, obj) ==
    CASE self.cls = "TransformChecker" -> TransformCheck(self, obj)
      [] self.cls = "MaterialChecker" -> MaterialCheck(self, obj)
      [] self.cls = "UVChecker" -> UVCheck(self, obj)
      [] self.cls = "GeometryChecker" -> GeometryCheck(self, obj)
      [] self.cls = "FaceOrientationChecker" -> FaceOrientationCheck(self, obj)
      [] OTHER -> PluginCheck(self, obj)

(***************************************************************************)
(* Python dict operations on sequences of [key, value] entries.            *)
(***************************************************************************)
DictHas(d, k) == \E i \in 1..Len(d) : d[i].key = k
DictIndex(d, k) == CHOOSE i \in 1..Len(d) : d[i].key = k
\* d[k] for a present key
DictGet(d, k) == d[DictIndex(d, k)].value
\* d[k] = v as a list append: a present key gets a second entry
DictSet_Appends(d, k, v) == Append(d, [key |-> k, value |-> v])

\* d[k] = v: a present key keeps its position, a new key goes last
DictSet(d, k, v) ==
    IF DictHas(d, k)
    THEN [d EXCEPT ![DictIndex(d, k)] = [key |-> k, value |-> v]]
    ELSE Append(d, [key |-> k, value |-> v])
\* del d[k] that cuts the entries after k as well
DictDel_DropsTail(d, k) == SubSeq(d, 1, DictIndex(d, k) - 1)

\* del d[k] for a present key
DictDel(d, k) ==
    LET i == DictIndex(d, k)
    IN  SubSeq(d, 1, i - 1) \o SubSeq(d, i + 1, Len(d))
\* list(d.values())
DictValues(d) == [i \in 1..Len(d) |-> d[i].value]
\* list(d.keys())
DictKeys(d) == [i \in 1..Len(d) |-> d[i].key]

(***************************************************************************)
(* CheckerRegistry (core/registry.py).                                     *)
(***************************************************************************)
\* CheckerRegistry.get
get(checker_id) ==
    IF DictHas(_checkers, checker_id) THEN <<DictGet(_checkers, checker_id)>> ELSE <<>>
\* CheckerRegistry.get_all
get_all == DictValues(_checkers)
\* CheckerRegistry.get_ids
get_ids == DictKeys(_checkers)
\* CheckerRegistry.count
count == Len(_checkers)

\* `last` before any call, and the fields an operation does not use:
\*   op, arg, ret, raised   the operation, its arguments, what it returned,
\*                          whether it raised instead
\*   log                    what it logged
\*   reports                its self.report calls, in order
\*   subjects, checkers     execute's locals `objects` and `checkers`
\*   all_results, counts    execute's local all_results and its three counts
\*   calls                  the (object name, checker) pairs check() ran on
\*   prev                   <<all_results>> of the call just before, when that
\*                          was a finished validate with the same arguments
NoCall ==
    [op |-> "none", arg |-> <<>>, ret |-> "", raised |-> FALSE, log |-> <<>>,
     reports |-> <<>>, subjects |-> <<>>, checkers |-> <<>>,
     all_results |-> <<>>, counts |-> <<0, 0, 0>>, calls |-> <<>>, prev |-> <<>>]

\* a register that stores the instance and not the class
RegisterStore_InstanceOnly(checker_id, instance, checker_class) ==
    /\ _checkers' = DictSet(_checkers, checker_id, instance)
    /\ UNCHANGED _checker_classes

\* what register stores, as one step on the two maps
RegisterStore(checker_id, instance, checker_class) ==
    /\ _checkers' = DictSet(_checkers, checker_id, instance)
    /\ _checker_classes' = DictSet(_checker_classes, checker_id, checker_class)

\* checker_class(), when __init__ does not raise
NewInstance(checker_class) == [cls |-> checker_class]

\* CheckerRegistry.register(checker_class)
Register(checker_class) ==
    IF InitRaises(checker_class)
    THEN /\ last' = [NoCall EXCEPT !.op = "register", !.arg = <<checker_class>>,
                                   !.raised = TRUE]
         /\ UNCHANGED <<objects, _checkers, _checker_classes,
                        unity_validator_results, host>>
    ELSE /\ LET instance == NewInstance(checker_class)
                checker_id == get_id(checker_class)
            IN  /\ RegisterStore(checker_id, instance, checker_class)
                /\ last' = [NoCall EXCEPT
                              !.op = "register", !.arg = <<checker_class>>,
                              !.ret = checker_class,
                              !.log = IF DictHas(_checkers, checker_id)
                                      THEN <<[level |-> "WARNING",
                                              text |-> "Checker '" \o Str(checker_id)
                                                  \o "' already registered, overwriting"]>>
                                      ELSE <<>>]
         /\ UNCHANGED <<objects, unity_validator_results, host>>

\* CheckerRegistry.unregister(checker_id)
Unregister(checker_id) ==
    /\ IF DictHas(_checkers, checker_id)
       THEN /\ _checkers' = DictDel(_checkers, checker_id)
            /\ _checker_classes' = DictDel(_checker_classes, checker_id)
            /\ last' = [NoCall EXCEPT !.op = "unregister", !.arg = <<checker_id>>,
                                      !.ret = "True"]
       ELSE /\ UNCHANGED <<_checkers, _checker_classes>>
            /\ last' = [NoCall EXCEPT !.op = "unregister", !.arg = <<checker_id>>,
                                      !.ret = "False"]
    /\ UNCHANGED <<objects, unity_validator_results, host>>

\* CheckerRegistry.clear()
Clear ==
    /\ _checkers' = <<>>
    /\ _checker_classes' = <<>>
    /\ last' = [NoCall EXCEPT !.op = "clear"]
    /\ UNCHANGED <<objects, unity_validator_results, host>>

(***************************************************************************)
(* get_mesh_objects (utils/helpers.py).  bpy.context.selected_objects is   *)
(* the selected objects in the order of bpy.data.objects.                  *)
(***************************************************************************)
IsSelected(obj) == obj.selected
selected_objects == SelectSeq(objects, IsSelected)

\* get_mesh_objects without the visible_only test
get_mesh_objects_IgnoresVisible(selected_only, visible_only) ==
    LET source == IF selected_only THEN selected_objects ELSE objects
        Keep(obj) == ~(obj.type # "MESH")
    IN  SelectSeq(source, Keep)

\* utils/helpers.py get_mesh_objects
get_mesh_objects(selected_only, visible_only) ==
    LET source == IF selected_only THEN selected_objects ELSE objects
        Keep(obj) == ~(obj.type # "MESH") /\ ~(visible_only /\ ~obj.visible)
    IN  SelectSeq(source, Keep)

(***************************************************************************)
(* UNITY_VALIDATOR_OT_validate (operators/validate.py).                    *)
(***************************************************************************)
\* LoopBody with an except branch that also resets all_results
LoopBody_FaultClearsResults(acc, obj, checker) ==
    IF ~is_supported(checker, obj) THEN acc
    ELSE IF is_excluded(checker, obj) THEN acc
    ELSE LET out == check(checker, obj)
             called == [acc EXCEPT !.calls = Append(@, <<obj.name, checker>>)]
         IN  IF ~out.raised
             THEN [called EXCEPT !.all_results = @ \o out.results]
             ELSE [called EXCEPT !.all_results = <<>>,
                                 !.reports = Append(@,
                      [level |-> "WARNING",
                       text |-> "Checker '" \o ClassDisplayName(checker.cls)
                                \o "' failed on '" \o obj.name \o "': " \o out.error])]

\* LoopBody without the is_excluded test
LoopBody_IgnoresExclusion(acc, obj, checker) ==
    IF ~is_supported(checker, obj) THEN acc
    ELSE LET out == check(checker, obj)
             called == [acc EXCEPT !.calls = Append(@, <<obj.name, checker>>)]
         IN  IF ~out.raised
             THEN [called EXCEPT !.all_results = @ \o out.results]
             ELSE [called EXCEPT !.reports = Append(@,
                      [level |-> "WARNING",
                       text |-> "Checker '" \o ClassDisplayName(checker.cls)
                                \o "' failed on '" \o obj.name \o "': " \o out.error])]

\* LoopBody that skips an object the stored results of an earlier run name
LoopBody_SkipsStored(acc, obj, checker) ==
    IF ~is_supported(checker, obj) THEN acc
    ELSE IF is_excluded(checker, obj) THEN acc
    ELSE IF \E k \in 1..Len(unity_validator_results) :
                unity_validator_results[k].object_name = obj.name
    THEN acc
    ELSE LET out == check(checker, obj)
             called == [acc EXCEPT !.calls = Append(@, <<obj.name, checker>>)]
         IN  IF ~out.raised
             THEN [called EXCEPT !.all_results = @ \o out.results]
             ELSE [called EXCEPT !.reports = Append(@,
                      [level |-> "WARNING",
                       text |-> "Checker '" \o ClassDisplayName(checker.cls)
                                \o "' failed on '" \o obj.name \o "': " \o out.error])]

\* LoopBody with an except branch that also adds a WARNING result
LoopBody_FaultCounts(acc, obj, checker) ==
    IF ~is_supported(checker, obj) THEN acc
    ELSE IF is_excluded(checker, obj) THEN acc
    ELSE LET out == check(checker, obj)
             called == [acc EXCEPT !.calls = Append(@, <<obj.name, checker>>)]
         IN  IF ~out.raised
             THEN [called EXCEPT !.all_results = @ \o out.results]
             ELSE [called EXCEPT
                     !.all_results = Append(@,
                         [checker_name |-> ClassDisplayName(checker.cls),
                          severity |-> WARNING, object_name |-> obj.name,
                          message |-> out.error, details |-> <<>>,
                          fix_hint |-> None]),
                     !.reports = Append(@,
                      [level |-> "WARNING",
                       text |-> "Checker '" \o ClassDisplayName(checker.cls)
                                \o "' failed on '" \o obj.name \o "': " \o out.error])]

\* one pass of the inner loop body for the pair (obj, checker), on the
\* accumulated all_results, reports and calls
LoopBody(acc, obj, checker) ==
    IF ~is_supported(checker, obj) THEN acc
    ELSE IF is_excluded(checker, obj) THEN acc
    ELSE LET out == check(checker, obj)
             called == [acc EXCEPT !.calls = Append(@, <<obj.name, checker>>)]
         IN  IF ~out.raised
             THEN [called EXCEPT !.all_results = @ \o out.results]
             ELSE [called EXCEPT !.reports = Append(@,
                      [level |-> "WARNING",
                       text |-> "Checker '" \o ClassDisplayName(checker.cls)
                                \o "' failed on '" \o obj.name \o "': " \o out.error])]

RECURSIVE RunLoop(_, _, _, _, _)
\* the nested loops `for obj in objects: for checker in checkers:` from the
\* pair (objs[i], checkers[j]) on
RunLoop(acc, objs, checkers, i, j) ==
    IF i > Len(objs) THEN acc
    ELSE IF j > Len(checkers) THEN RunLoop(acc, objs, checkers, i + 1, 1)
    ELSE RunLoop(LoopBody(acc, objs[i], checkers[j]), objs, checkers, i, j + 1)

\* sum(1 for r in all_results if r.severity == sev)
SeverityCount(all_results, sev) ==
    Cardinality({k \in 1..Len(all_results) : all_results[k].severity = sev})

\* <<error_count, warning_count, info_count>>
SummaryCounts(all_results) ==
    <<SeverityCount(all_results, ERROR),
      SeverityCount(all_results, WARNING),
      SeverityCount(all_results, INFO)>>

\* SummaryReport that tests warning_count before error_count
SummaryReport_WarningFirst(all_results) ==
    LET error_count == SummaryCounts(all_results)[1]
        warning_count == SummaryCounts(all_results)[2]
        info_count == SummaryCounts(all_results)[3]
    IN  IF warning_count > 0
        THEN [level |-> "WARNING",
              text |-> "Validation complete: " \o ToString(warning_count)
                       \o " warnings, " \o ToString(info_count) \o " info"]
        ELSE IF error_count > 0
        THEN [level |-> "ERROR",
              text |-> "Validation complete: " \o ToString(error_count) \o " errors, "
                       \o ToString(warning_count) \o " warnings, "
                       \o ToString(info_count) \o " info"]
        ELSE IF info_count > 0
        THEN [level |-> "INFO",
              text |-> "Validation complete: " \o ToString(info_count) \o " info items"]
        ELSE [level |-> "INFO", text |-> "Validation complete: No issues found!"]

\* the summary report at the end of execute
SummaryReport(all_results) ==
    LET error_count == SummaryCounts(all_results)[1]
        warning_count == SummaryCounts(all_results)[2]
        info_count == SummaryCounts(all_results)[3]
    IN  IF error_count > 0
        THEN [level |-> "ERROR",
              text |-> "Validation complete: " \o ToString(error_count) \o " errors, "
                       \o ToString(warning_count) \o " warnings, "
                       \o ToString(info_count) \o " info"]
        ELSE IF warning_count > 0
        THEN [level |-> "WARNING",
              text |-> "Validation complete: " \o ToString(warning_count)
                       \o " warnings, " \o ToString(info_count) \o " info"]
        ELSE IF info_count > 0
        THEN [level |-> "INFO",
              text |-> "Validation complete: " \o ToString(info_count) \o " info items"]
        ELSE [level |-> "INFO", text |-> "Validation complete: No issues found!"]

\* the item _store_results adds for one result
StoredItem(result) ==
    [checker_name |-> result.checker_name,
     severity |-> SeverityName(result.severity),
     object_name |-> result.object_name,
     message |-> result.message,
     fix_hint |-> IF result.fix_hint = None \/ result.fix_hint = ""
                  THEN "" ELSE result.fix_hint]

\* _store_results without the clear()
_store_results_KeepsOld(results) ==
    unity_validator_results \o [k \in 1..Len(results) |-> StoredItem(results[k])]

\* UNITY_VALIDATOR_OT_validate._store_results: the collection after the
\* clear() and the add() of every result
_store_results(results) == [k \in 1..Len(results) |-> StoredItem(results[k])]

\* execute that also applies the scale of every object
Validate_AppliesScale(selected_only, visible_only) ==
    LET objs == get_mesh_objects(selected_only, visible_only)
        checkers == get_all
        call == [NoCall EXCEPT !.op = "validate",
                               !.arg = <<selected_only, visible_only>>,
                               !.subjects = objs]
    IN  /\ IF Len(objs) = 0
           THEN /\ last' = [call EXCEPT
                              !.ret = "CANCELLED",
                              !.reports = <<[level |-> "WARNING",
                                             text |-> "No mesh objects to validate"]>>]
                /\ UNCHANGED unity_validator_results
           ELSE IF Len(checkers) = 0
           THEN /\ last' = [call EXCEPT
                              !.ret = "CANCELLED",
                              !.reports = <<[level |-> "ERROR",
                                             text |-> "No checkers registered"]>>]
                /\ UNCHANGED unity_validator_results
           ELSE LET done == RunLoop([call EXCEPT !.checkers = checkers],
                                    objs, checkers, 1, 1)
                IN  /\ unity_validator_results' = _store_results(done.all_results)
                    /\ last' = [done EXCEPT
                                  !.ret = "FINISHED",
                                  !.counts = SummaryCounts(done.all_results),
                                  !.reports = Append(@, SummaryReport(done.all_results)),
                                  !.prev = IF /\ last.op = "validate"
                                              /\ last.ret = "FINISHED"
                                              /\ last.arg = <<selected_only, visible_only>>
                                           THEN <<last.all_results>> ELSE <<>>]
        /\ objects' = [k \in 1..Len(objects) |->
                           [objects[k] EXCEPT !.scale = <<One, One, One>>]]
        /\ UNCHANGED <<_checkers, _checker_classes, host>>

\* execute that empties the stored results before it returns CANCELLED
Validate_CancelClears(selected_only, visible_only) ==
    LET objs == get_mesh_objects(selected_only, visible_only)
        checkers == get_all
        call == [NoCall EXCEPT !.op = "validate",
                               !.arg = <<selected_only, visible_only>>,
                               !.subjects = objs]
    IN  /\ IF Len(objs) = 0
           THEN /\ last' = [call EXCEPT
                              !.ret = "CANCELLED",
                              !.reports = <<[level |-> "WARNING",
                                             text |-> "No mesh objects to validate"]>>]
                /\ unity_validator_results' = <<>>
           ELSE IF Len(checkers) = 0
           THEN /\ last' = [call EXCEPT
                              !.ret = "CANCELLED",
                              !.reports = <<[level |-> "ERROR",
                                             text |-> "No checkers registered"]>>]
                /\ unity_validator_results' = <<>>
           ELSE LET done == RunLoop([call EXCEPT !.checkers = checkers],
                                    objs, checkers, 1, 1)
                IN  /\ unity_validator_results' = _store_results(done.all_results)
                    /\ last' = [done EXCEPT
                                  !.ret = "FINISHED",
                                  !.counts = SummaryCounts(done.all_results),
                                  !.reports = Append(@, SummaryReport(done.all_results)),
                                  !.prev = IF /\ last.op = "validate"
                                              /\ last.ret = "FINISHED"
                                              /\ last.arg = <<selected_only, visible_only>>
                                           THEN <<last.all_results>> ELSE <<>>]
        /\ UNCHANGED <<objects, _checkers, _checker_classes, host>>

\* UNITY_VALIDATOR_OT_validate.execute
Validate(selected_only, visible_only) ==
    LET objs == get_mesh_objects(selected_only, visible_only)
        checkers == get_all
        call == [NoCall EXCEPT !.op = "validate",
                               !.arg = <<selected_only, visible_only>>,
                               !.subjects = objs]
    IN  /\ IF Len(objs) = 0
           THEN /\ last' = [call EXCEPT
                              !.ret = "CANCELLED",
                              !.reports = <<[level |-> "WARNING",
                                             text |-> "No mesh objects to validate"]>>]
                /\ UNCHANGED unity_validator_results
           ELSE IF Len(checkers) = 0
           THEN /\ last' = [call EXCEPT
                              !.ret = "CANCELLED",
                              !.reports = <<[level |-> "ERROR",
                                             text |-> "No checkers registered"]>>]
                /\ UNCHANGED unity_validator_results
           ELSE LET done == RunLoop([call EXCEPT !.checkers = checkers],
                                    objs, checkers, 1, 1)
                IN  /\ unity_validator_results' = _store_results(done.all_results)
                    /\ last' = [done EXCEPT
                                  !.ret = "FINISHED",
                                  !.counts = SummaryCounts(done.all_results),
                                  !.reports = Append(@, SummaryReport(done.all_results)),
                                  !.prev = IF /\ last.op = "validate"
                                              /\ last.ret = "FINISHED"
                                              /\ last.arg = <<selected_only, visible_only>>
                                           THEN <<last.all_results>> ELSE <<>>]
        /\ UNCHANGED <<objects, _checkers, _checker_classes, host>>

(***************************************************************************)
(* The scenes the model starts from.                                       *)
(***************************************************************************)
NoProps == [k \in {} |-> 0]
OneProp(key, value) == [k \in {key} |-> value]

MaterialSlot(name) == [material_is_none |-> FALSE, name |-> name]
EmptySlot == [material_is_none |-> TRUE, name |-> ""]
Mesh(polygons) == [is_none |-> FALSE, polygons |-> polygons]
NoneData == [is_none |-> TRUE, polygons |-> <<>>]
Polygon(material_index) == [material_index |-> material_index]

SoundMaterial ==
    [material_slots |-> <<MaterialSlot("Mat")>>, data |-> Mesh(<<Polygon(0)>>)]
NoSlots ==
    [material_slots |-> <<>>, data |-> Mesh(<<Polygon(0)>>)]
\* a slot on an object whose mesh data the host does not deliver
NoData ==
    [material_slots |-> <<MaterialSlot("Mat")>>, data |-> NoneData]

\* the first object's material set-up and custom properties
CubeVariants ==
    {<<SoundMaterial, NoProps>>,
     <<NoData, NoProps>>,
     <<SoundMaterial, OneProp(PropName(ExclusionPrefix, get_id("TransformChecker")), 1)>>,
     <<SoundMaterial, OneProp(PropName("exclude_", get_id("TransformChecker")), 1)>>,
     <<NoSlots, OneProp(PropName(ExclusionPrefix, get_id("TransformChecker")), 0)>>,
     <<SoundMaterial, OneProp(PropName(ExclusionPrefix, get_id("MaterialChecker")), 1)>>}

Cube(m, props) ==
    [name |-> "Cube", type |-> "MESH", visible |-> TRUE, selected |-> FALSE,
     scale |-> <<0 - One, One, One>>, rotation_euler |-> <<0, 0, 0>>,
     material_slots |-> m.material_slots, data |-> m.data, props |-> props]

Plane ==
    [name |-> "Plane", type |-> "MESH", visible |-> FALSE, selected |-> FALSE,
     scale |-> <<One, One, One>>, rotation_euler |-> <<0, 0, 2000>>,
     material_slots |-> <<EmptySlot, MaterialSlot("Mat")>>,
     data |-> Mesh(<<Polygon(0), Polygon(0)>>), props |-> NoProps]

Path ==
    [name |-> "Path", type |-> "CURVE", visible |-> TRUE, selected |-> TRUE,
     scale |-> <<One, One, One>>, rotation_euler |-> <<0, 0, 0>>,
     material_slots |-> <<>>, data |-> NoneData, props |-> NoProps]

Init ==
    /\ \E v \in CubeVariants : objects = <<Cube(v[1], v[2]), Path, Plane>>
    /\ _checkers = <<>>
    /\ _checker_classes = <<>>
    /\ unity_validator_results = <<>>
    /\ unity_validator_result_index = 0
    /\ addon_registered = TRUE
    /\ last = NoCall

RegisteredIds == {get_id(cls) : cls \in CheckerClasses}

Next ==
    \/ \E checker_class \in CheckerClasses : Register(checker_class)
    \/ \E checker_id \in RegisteredIds : Unregister(checker_id)
    \/ Clear
    \/ \E selected_only \in BOOLEAN, visible_only \in BOOLEAN :
           Validate(selected_only, visible_only)

Spec == Init /\ [][Next]_vars

(***************************************************************************)
(* Vocabulary of the properties.  A run is a validate call that got past   *)
(* the two cancel checks; its record is `last`.                            *)
(***************************************************************************)
IsValidate == last.op = "validate"
IsRun == IsValidate /\ last.ret = "FINISHED"

\* number of positions of the sequence s that hold x
Occurrences(s, x) == Cardinality({k \in 1..Len(s) : s[k] = x})

\* s and t hold the same elements the same number of times
SameMultiset(s, t) ==
    \A x \in Range(s) \cup Range(t) : Occurrences(s, x) = Occurrences(t, x)

\* the (subject, checker) pairs of the run: every subject with every checker
RunPairs == {<<obj, c>> : obj \in Range(last.subjects), c \in Range(last.checkers)}

\* the pairs the contract makes eligible
EligiblePairs == {p \in RunPairs : is_supported(p[2], p[1]) /\ ~is_excluded(p[2], p[1])}

FaultedPairs == {p \in EligiblePairs : check(p[2], p[1]).raised}
SoundPairs == EligiblePairs \ FaultedPairs

\* how often the result x is returned by the check() calls of the pairs P
ReturnedBy(P, x) ==
    Cardinality(UNION {{<<p, k>> : k \in {j \in 1..Len(check(p[2], p[1]).results) :
                                              check(p[2], p[1]).results[j] = x}} :
                       p \in P})

\* the results returned by the check() calls of the pairs P
ResultsOf(P) ==
    UNION {Range(check(p[2], p[1]).results) : p \in P}

\* the report that names the fault of the pair p
FaultReport(p) ==
    [level |-> "WARNING",
     text |-> "Checker '" \o ClassDisplayName(p[2].cls) \o "' failed on '"
              \o p[1].name \o "': " \o check(p[2], p[1]).error]

\* the objects get_mesh_objects is to deliver, as a set
EligibleSubjects(selected_only, visible_only) ==
    {obj \in Range(objects) :
        /\ obj.type = "MESH"
        /\ selected_only => obj.selected
        /\ visible_only => obj.visible}

(***************************************************************************)
(* C1.  Fault isolation: when check() of checker c raises on subject s,    *)
(* the pair (s, c) adds no result to the aggregate and one WARNING report  *)
(* names c and s; every other eligible pair adds exactly the results its   *)
(* check() returns; and the call still finishes.                           *)
(***************************************************************************)
C1_FaultIsolation ==
    (IsValidate /\ last.subjects # <<>> /\ last.checkers # <<>>) =>
        /\ last.ret = "FINISHED"
        /\ \A x \in Range(last.all_results) \cup ResultsOf(SoundPairs) :
               Occurrences(last.all_results, x) = ReturnedBy(SoundPairs, x)
        /\ \A p \in FaultedPairs : Occurrences(last.reports, FaultReport(p)) = 1
        /\ Len(last.reports) = Cardinality(FaultedPairs) + 1

\* a run in which one pair faulted and other pairs returned findings
C1_Witness ==
    /\ IsRun
    /\ FaultedPairs # {}
    /\ \E p \in SoundPairs : check(p[2], p[1]).results # <<>>
    /\ last.all_results # <<>>

(***************************************************************************)
(* C2.  A validate call returns CANCELLED exactly when no object is        *)
(* eligible or no checker is registered; otherwise it runs check() on      *)
(* every eligible pair, stores one item per aggregated result (none when   *)
(* there is no result) and returns FINISHED, also when a check() raises.   *)
(***************************************************************************)
C2_CancelledIff ==
    IsValidate =>
        /\ last.ret \in {"CANCELLED", "FINISHED"}
        /\ last.ret = "CANCELLED" <=>
               \/ EligibleSubjects(last.arg[1], last.arg[2]) = {}
               \/ Len(_checkers) = 0
        /\ last.ret = "FINISHED" =>
               /\ Range(last.subjects) = EligibleSubjects(last.arg[1], last.arg[2])
               /\ Len(last.calls) = Cardinality(EligiblePairs)
               /\ Len(unity_validator_results) = Len(last.all_results)

\* a finished run in which a check() raised and nothing was aggregated
C2_Witness ==
    /\ IsRun
    /\ FaultedPairs # {}
    /\ unity_validator_results = <<>>

(***************************************************************************)
(* C3.  In a finished run check() is invoked exactly once on every pair    *)
(* that is supported and not excluded and on no other pair; a checker      *)
(* that does not support exclusion runs on every subject it supports,      *)
(* whatever the subject's property bag holds.                              *)
(***************************************************************************)
C3_CheckOncePerEligiblePair ==
    IsRun =>
        /\ \A p \in RunPairs :
               Occurrences(last.calls, <<p[1].name, p[2]>>) =
                   IF is_supported(p[2], p[1]) /\ ~is_excluded(p[2], p[1]) THEN 1 ELSE 0
        /\ Len(last.calls) = Cardinality(EligiblePairs)
        /\ \A p \in RunPairs :
               (~ClassSupportsExclusion(p[2].cls) /\ is_supported(p[2], p[1])) =>
                   Occurrences(last.calls, <<p[1].name, p[2]>>) = 1

\* a run in which a checker without exclusion support ran on a subject whose
\* bag holds the truthy exclusion flag of its id, and another pair was skipped
C3_Witness ==
    /\ IsRun
    /\ \E p \in RunPairs :
           /\ ~ClassSupportsExclusion(p[2].cls)
           /\ Truthy(ObjGet(p[1], PropName(ExclusionPrefix, get_id(p[2].cls)), 0))
           /\ Occurrences(last.calls, <<p[1].name, p[2]>>) = 1
    /\ \E p \in RunPairs : Occurrences(last.calls, <<p[1].name, p[2]>>) = 0

(***************************************************************************)
(* C4.  As the claim states it: is_excluded(subject) is true exactly when  *)
(* the checker supports exclusion and the subject's property bag holds a   *)
(* truthy value under the key exclude_<checker_id>.                        *)
(***************************************************************************)
C4_KeyIsExcludeId ==
    \A c \in Range(get_all), obj \in Range(objects) :
        is_excluded(c, obj) <=>
            /\ ClassSupportsExclusion(c.cls)
            /\ PropName("exclude_", get_id(c.cls)) \in DOMAIN obj.props
            /\ obj.props[PropName("exclude_", get_id(c.cls))] # 0

(***************************************************************************)
(* C4, amended.  is_excluded(subject) is true exactly when the checker     *)
(* supports exclusion and the subject's property bag holds a truthy value  *)
(* under the key unity_validator_exclude_<checker_id>; no operation        *)
(* changes the objects, so the flag is only read.                          *)
(***************************************************************************)
C4_ExclusionFlag ==
    /\ [](\A c \in Range(get_all), obj \in Range(objects) :
              is_excluded(c, obj) <=>
                  /\ ClassSupportsExclusion(c.cls)
                  /\ PropName("unity_validator_exclude_", get_id(c.cls))
                         \in DOMAIN obj.props
                  /\ obj.props[PropName("unity_validator_exclude_", get_id(c.cls))] # 0)
    /\ [][objects' = objects]_vars

\* a run on a subject that carries a truthy flag of a registered checker that
\* supports exclusion: is_excluded was true and the pair was skipped
C4_Witness ==
    /\ IsRun
    /\ \E p \in RunPairs :
           /\ is_supported(p[2], p[1])
           /\ ClassSupportsExclusion(p[2].cls)
           /\ PropName("unity_validator_exclude_", get_id(p[2].cls)) \in DOMAIN p[1].props
           /\ p[1].props[PropName("unity_validator_exclude_", get_id(p[2].cls))] = 1
           /\ Occurrences(last.calls, <<p[1].name, p[2]>>) = 0

(***************************************************************************)
(* C5.  Export-readiness gate.  In a finished run the three counts are     *)
(* taken over the whole aggregate and add up to its length; the last       *)
(* report is at ERROR level exactly when the aggregate holds an ERROR      *)
(* result, and the run returns FINISHED then too.                          *)
(***************************************************************************)
FinalReport == last.reports[Len(last.reports)]

C5_ExportReadinessGate ==
    (IsValidate /\ last.subjects # <<>> /\ last.checkers # <<>>) =>
        /\ last.counts[1] = Cardinality({k \in 1..Len(last.all_results) :
                                            last.all_results[k].severity = ERROR})
        /\ last.counts[2] = Cardinality({k \in 1..Len(last.all_results) :
                                            last.all_results[k].severity = WARNING})
        /\ last.counts[3] = Cardinality({k \in 1..Len(last.all_results) :
                                            last.all_results[k].severity = INFO})
        /\ last.counts[1] + last.counts[2] + last.counts[3] = Len(last.all_results)
        /\ FinalReport.level = "ERROR" <=>
               \E k \in 1..Len(last.all_results) : last.all_results[k].severity = ERROR
        /\ last.ret = "FINISHED"

\* a finished run whose aggregate holds an ERROR and a finding that is none
C5_Witness ==
    /\ IsRun
    /\ FinalReport.level = "ERROR"
    /\ last.counts[1] > 0
    /\ last.counts[2] + last.counts[3] > 0

Positions(d, k) == {i \in 1..Len(d) : d[i].key = k}

\* the dict d without its entries for the key k, order kept
Without(d, k) ==
    LET Other(e) == e.key # k
    IN  SelectSeq(d, Other)

\* a register call of a class that can be constructed
RegisterStep ==
    /\ last'.op = "register"
    /\ ClassDisplayName(last'.arg[1]) # ""
    /\ ClassDescription(last'.arg[1]) # ""

(***************************************************************************)
(* C7.  Last registration wins: registering a checker whose id is already  *)
(* present does not fail, logs one warning and leaves exactly one entry    *)
(* for that id, which holds the checker just registered; the number of     *)
(* entries is unchanged and every other id keeps its entry.                *)
(***************************************************************************)
C7_LastRegistrationWins ==
    [][(RegisterStep /\ Positions(_checkers, get_id(last'.arg[1])) # {}) =>
          LET checker_class == last'.arg[1]
              checker_id == get_id(checker_class)
          IN  /\ ~last'.raised
              /\ last'.ret = checker_class
              /\ Len(last'.log) = 1
              /\ last'.log[1].level = "WARNING"
              /\ Cardinality(Positions(_checkers', checker_id)) = 1
              /\ Cardinality(Positions(_checker_classes', checker_id)) = 1
              /\ \A i \in Positions(_checkers', checker_id) :
                     _checkers'[i].value = [cls |-> checker_class]
              /\ \A i \in Positions(_checker_classes', checker_id) :
                     _checker_classes'[i].value = checker_class
              /\ Len(_checkers') = Len(_checkers)
              /\ Len(_checker_classes') = Len(_checker_classes)
              /\ Without(_checkers', checker_id) = Without(_checkers, checker_id)
              /\ Without(_checker_classes', checker_id)
                     = Without(_checker_classes, checker_id)
      ]_vars

\* a registration over another class of the same id, with a second id present
C7_Witness ==
    /\ last.op = "register"
    /\ last.log # <<>>
    /\ Len(_checkers) = 2
    /\ get_id(last.arg[1]) = get_id("TransformChecker")
    /\ last.arg[1] # "TransformChecker"

(***************************************************************************)
(* C8.  get_all() returns the registered instances in the order in which   *)
(* they were registered: a register call puts the instance it creates      *)
(* after all the others, re-registration of a present id included, and an  *)
(* unregister call keeps the order of the others.                          *)
(***************************************************************************)
C8_RegistrationOrder ==
    [][/\ (RegisterStep /\ ~last'.raised) =>
              get_all' = DictValues(Without(_checkers, get_id(last'.arg[1])))
                             \o <<[cls |-> last'.arg[1]]>>
       /\ last'.op = "unregister" =>
              get_all' = DictValues(Without(_checkers, last'.arg[1]))
      ]_vars

C10_ConstructionFault ==
    /\ [][(/\ last'.op = "register"
           /\ \/ ClassDisplayName(last'.arg[1]) = ""
              \/ ClassDescription(last'.arg[1]) = "") =>
              /\ last'.raised
              /\ _checkers' = _checkers
              /\ _checker_classes' = _checker_classes
         ]_vars
    /\ [](\A c \in Range(get_all) :
              ClassDisplayName(c.cls) # "" /\ ClassDescription(c.cls) # "")
    /\ [](\A k \in 1..Len(last.calls) :
              /\ ClassDisplayName(last.calls[k][2].cls) # ""
              /\ ClassDescription(last.calls[k][2].cls) # "")

\* a registration that raised on a registry that holds a checker of the same id
C10_Witness ==
    /\ last.op = "register"
    /\ last.raised
    /\ last.arg[1] = "MATERIAL"
    /\ Positions(_checkers, get_id("MATERIAL")) # {}

(***************************************************************************)
(* The checkers and the constructors on their own.  CheckSpec starts from  *)
(* one object out of the families below and calls check() of the add-on's  *)
(* checkers on it, get_id() on instances of types of any name, the         *)
(* ValidationResult constructor and create_result.                         *)
(***************************************************************************)
MaxSlots == 3
MaxLayers == 2
MaxPolygons == 3
MaxCap == 3
MaxInstances == 2

\* all sequences over S of length 0..n
SeqUpTo(S, n) == UNION {[1..k -> S] : k \in 0..n}

Face(loop_total, area, toward_center, material_index) ==
    [loop_total |-> loop_total, area |-> area, toward_center |-> toward_center,
     material_index |-> material_index]
UVLayer(name, data_len) == [name |-> name, data_len |-> data_len]
MeshData(polygons, loops, uv_layers, uv_active) ==
    [is_none |-> FALSE, polygons |-> polygons, loops |-> loops,
     uv_layers |-> uv_layers, uv_active |-> uv_active]

\* a quad of one square unit that faces outward, on material slot 0
PlainFace == Face(4, 100000, -1000, 0)
PlainMesh == MeshData(<<PlainFace>>, 4, <<UVLayer("UVMap", 4)>>, 1)
PlainSlots == <<MaterialSlot("Mat")>>

TestObject(scale, rotation_euler, material_slots, data) ==
    [name |-> "Object", type |-> "MESH", visible |-> TRUE, selected |-> FALSE,
     scale |-> scale, rotation_euler |-> rotation_euler,
     material_slots |-> material_slots, data |-> data, props |-> NoProps]

\* scales and rotations at, inside and outside the tolerance, and negative scales
Scales ==
    {<<One, One, One>>,
     <<One + FLOAT_TOLERANCE - 1, One - FLOAT_TOLERANCE + 1, One>>,
     <<One + FLOAT_TOLERANCE, One, One>>,
     <<One, One - FLOAT_TOLERANCE, One>>,
     <<One, One, One + FLOAT_TOLERANCE + 1>>,
     <<0 - One, One, One>>,
     <<0 - One, 0 - One, One>>,
     <<0 - One, 0 - One, 0 - One>>,
     <<One, 0 - 5, One>>,
     <<0, One, One>>}
Rotations ==
    {<<0, 0, 0>>,
     <<FLOAT_TOLERANCE - 1, 1 - FLOAT_TOLERANCE, 0>>,
     <<FLOAT_TOLERANCE, 0, 0>>,
     <<0, 0 - FLOAT_TOLERANCE, 0>>,
     <<0, 0, FLOAT_TOLERANCE + 1>>,
     <<0, 0, 2000>>}
TransformObjects ==
    {TestObject(scale, rotation, PlainSlots, PlainMesh) :
        scale \in Scales, rotation \in Rotations}

\* material slots against the material indices of the polygons
MaterialIndexLists == {<<>>, <<0>>, <<1>>, <<0, 1>>, <<2, 2>>}
MaterialMesh(indices) ==
    MeshData([k \in 1..Len(indices) |-> Face(4, 100000, -1000, indices[k])],
             4 * Len(indices), <<UVLayer("UVMap", 4 * Len(indices))>>, 1)
MaterialObjects ==
    {TestObject(<<One, One, One>>, <<0, 0, 0>>, slots, MaterialMesh(indices)) :
        slots \in SeqUpTo({EmptySlot, MaterialSlot("Mat")}, MaxSlots)
                    \cup {<<MaterialSlot("")>>, <<EmptySlot, MaterialSlot("")>>},
        indices \in MaterialIndexLists}

\* UV layers that all hold data_len entries, the active one, the mesh's loops
UVObjects ==
    {TestObject(<<One, One, One>>, <<0, 0, 0>>, PlainSlots,
                MeshData(IF loops = 0 THEN <<>> ELSE <<PlainFace>>, loops,
                         [k \in 1..n |-> UVLayer("UVMap", data_len)], active)) :
        <<n, active>> \in {<<n, active>> \in (0..MaxLayers) \X (0..MaxLayers) : active <= n},
        data_len \in {0, 3, 4},
        loops \in {0, 4}}

\* polygons of the four kinds: quad, pentagon, small triangle, triangle of
\* exactly the threshold area
FaceKinds ==
    {PlainFace, Face(5, 100000, -1000, 0), Face(3, 9, -1000, 0), Face(3, 10, -1000, 0)}
GeometryMesh(polygons) == MeshData(polygons, 4, <<UVLayer("UVMap", 4)>>, 1)
GeometryObjects ==
    {TestObject(<<One, One, One>>, <<0, 0, 0>>, PlainSlots, GeometryMesh(polygons)) :
        polygons \in SeqUpTo(FaceKinds, MaxPolygons)
                       \cup {[k \in 1..12 |-> Face(6, 5, -1000, 0)]}}

\* a mesh of n faces of which the listed ones point at the centre
Dome(n, inward) ==
    GeometryMesh([k \in 1..n |->
                     Face(4, 100000, IF k \in inward THEN 900 ELSE -900, 0)])
DomeShapes ==
    {<<3, {}>>, <<3, {2}>>, <<20, {1}>>, <<21, {21}>>, <<80, 1..4>>, <<81, 1..4>>,
     <<200, 1..4>>, <<200, 1..5>>, <<200, 1..20>>, <<200, 176..200>>,
     <<100, {10, 20, 30}>>, <<101, {10, 20, 30, 40, 50}>>}
FaceObjects ==
    {TestObject(<<One, One, One>>, <<0, 0, 0>>, PlainSlots, Dome(shape[1], shape[2])) :
        shape \in DomeShapes}
    \cup {TestObject(<<One, One, One>>, <<0, 0, 0>>, PlainSlots,
                     GeometryMesh(<<Face(4, 100000, 700, 0), Face(4, 100000, 701, 0)>>))}

TestObjects ==
    TransformObjects \cup MaterialObjects \cup UVObjects \cup GeometryObjects
        \cup FaceObjects

\* instances of the add-on's checkers, as constructed and with the cap set
CheckerInstances ==
    {[cls |-> c] : c \in {"TransformChecker", "MaterialChecker", "UVChecker",
                          "GeometryChecker", "FaceOrientationChecker"}}
    \cup {[cls |-> c, max_reported_faces |-> K] :
             c \in {"GeometryChecker", "FaceOrientationChecker"}, K \in 0..MaxCap}

\* type names: a stem, then "Checker" or something close to it
TypeNames ==
    {stem \o suffix :
        stem \in {<<>>, <<"U","V">>, <<"m","y">>, CheckerSuffix},
        suffix \in {<<>>, CheckerSuffix, StrLower(CheckerSuffix),
                    SubSeq(CheckerSuffix, 1, 6), CheckerSuffix \o <<"s">>}}

CheckInit ==
    /\ \E obj \in TestObjects : objects = <<obj>>
    /\ _checkers = <<>>
    /\ _checker_classes = <<>>
    /\ unity_validator_results = <<>>
    /\ unity_validator_result_index = 0
    /\ addon_registered = TRUE
    /\ last = NoCall

\* checker.check(obj) on the object
CallCheck(self) ==
    /\ LET out == check(self, objects[1])
       IN  last' = [NoCall EXCEPT !.op = "check", !.arg = <<self>>,
                                  !.raised = out.raised, !.ret = out.error,
                                  !.all_results = out.results]
    /\ UNCHANGED <<objects, _checkers, _checker_classes, unity_validator_results, host>>

\* get_id() of the instance_no-th instance of the type named class_name
CallGetId(class_name, instance_no) ==
    /\ last' = [NoCall EXCEPT !.op = "get_id", !.arg = <<class_name, instance_no>>,
                              !.ret = ClassId(class_name)]
    /\ UNCHANGED <<objects, _checkers, _checker_classes, unity_validator_results, host>>

\* ValidationResult(checker_name, severity, object_name, message)
NewValidationResult(checker_name, severity, message) ==
    /\ LET r == [checker_name |-> checker_name, severity |-> severity,
                 object_name |-> objects[1].name, message |-> message,
                 details |-> <<>>, fix_hint |-> None]
       IN  last' = [NoCall EXCEPT
                      !.op = "ValidationResult", !.arg = <<checker_name, message>>,
                      !.raised = PostInitRaises(r),
                      !.ret = IF PostInitRaises(r) THEN PostInitError(r) ELSE "",
                      !.all_results = IF PostInitRaises(r) THEN <<>> ELSE <<r>>]
    /\ UNCHANGED <<objects, _checkers, _checker_classes, unity_validator_results, host>>

\* self.create_result(obj, message, severity)
CallCreateResult(self, message, severity) ==
    /\ LET out == Returns(<<create_result(self, objects[1], message, severity,
                                          <<>>, None)>>)
       IN  last' = [NoCall EXCEPT !.op = "create_result", !.arg = <<self, message>>,
                                  !.raised = out.raised, !.ret = out.error,
                                  !.all_results = out.results]
    /\ UNCHANGED <<objects, _checkers, _checker_classes, unity_validator_results, host>>

CheckNext == \E self \in CheckerInstances : CallCheck(self)

CheckSpec == CheckInit /\ [][CheckNext]_vars

\* UnitSpec: the constructors and get_id, next to check(), on a few objects
UnitObjects ==
    {TestObject(<<0 - One, One, One + FLOAT_TOLERANCE>>, <<0, 0, 2000>>,
                <<EmptySlot, MaterialSlot("")>>,
                GeometryMesh(<<Face(5, 9, 900, 0)>>)),
     TestObject(<<One, One, One>>, <<0, 0, 0>>, <<>>,
                MeshData(<<>>, 0, <<>>, 0)),
     TestObject(<<One, One, One>>, <<0, 0, 0>>, PlainSlots,
                MeshData(<<PlainFace>>, 4, <<UVLayer("UVMap", 3), UVLayer("", 4)>>, 0)),
     [TestObject(<<One, One, One>>, <<0, 0, 0>>, PlainSlots, PlainMesh)
          EXCEPT !.data.is_none = TRUE]}

UnitInit ==
    /\ \E obj \in UnitObjects : objects = <<obj>>
    /\ _checkers = <<>>
    /\ _checker_classes = <<>>
    /\ unity_validator_results = <<>>
    /\ unity_validator_result_index = 0
    /\ addon_registered = TRUE
    /\ last = NoCall

UnitNext ==
    \/ \E self \in CheckerInstances : CallCheck(self)
    \/ \E class_name \in TypeNames, instance_no \in 1..MaxInstances :
           CallGetId(class_name, instance_no)
    \/ \E checker_name \in {"", "Geometry"}, severity \in Severity,
          message \in {"", "1 N-gon(s) found"} :
           NewValidationResult(checker_name, severity, message)
    \/ \E self \in CheckerInstances, message \in {"", "1 N-gon(s) found"},
          severity \in Severity :
           CallCreateResult(self, message, severity)

UnitSpec == UnitInit /\ [][UnitNext]_vars

(***************************************************************************)
(* C11.  The checker id is the type name without a trailing "Checker", in  *)
(* lower case, and nothing else enters it: two instances of one type give  *)
(* the same id and so the same exclusion-flag key.                         *)
(***************************************************************************)
C11_IdFromTypeName ==
    /\ [](last.op = "get_id" =>
             LET class_name == last.arg[1]
                 id == last.ret
                 has_suffix ==
                     /\ Len(class_name) >= 7
                     /\ \A k \in 1..7 :
                            class_name[Len(class_name) - 7 + k] = CheckerSuffix[k]
                 kept == IF has_suffix THEN Len(class_name) - 7 ELSE Len(class_name)
             IN  /\ Len(id) = kept
                 /\ \A k \in 1..kept :
                        \/ \E j \in 1..26 : /\ class_name[k] = UpperChars[j]
                                            /\ id[k] = LowerChars[j]
                        \/ /\ \A j \in 1..26 : class_name[k] # UpperChars[j]
                           /\ id[k] = class_name[k])
    /\ [][(/\ last.op = "get_id"
           /\ last'.op = "get_id"
           /\ last'.arg[1] = last.arg[1]) =>
              /\ last'.ret = last.ret
              /\ PropName(ExclusionPrefix, last'.ret) = PropName(ExclusionPrefix, last.ret)
         ]_vars

\* get_id of a second instance of a type named <stem>checker, which keeps
\* its lower-case suffix
C11_Witness ==
    /\ last.op = "get_id"
    /\ last.arg[2] = 2
    /\ last.arg[1] = <<"U","V">> \o StrLower(CheckerSuffix)
    /\ last.ret = <<"u","v">> \o StrLower(CheckerSuffix)

(***************************************************************************)
(* C12.  Constructing a ValidationResult with an empty checker_name or an  *)
(* empty message raises; every result that check() or create_result hands  *)
(* out has a checker_name and a message that are not empty.                *)
(***************************************************************************)
C12_NonEmptyResult ==
    /\ last.op = "ValidationResult" =>
           /\ last.raised <=> (last.arg[1] = "" \/ last.arg[2] = "")
           /\ last.raised => last.all_results = <<>>
           /\ ~last.raised => Len(last.all_results) = 1
    /\ last.op = "create_result" =>
           /\ last.raised <=> last.arg[2] = ""
           /\ last.raised => last.all_results = <<>>
    /\ last.op \in {"ValidationResult", "create_result", "check"} =>
           \A k \in 1..Len(last.all_results) :
               /\ last.all_results[k].checker_name # ""
               /\ last.all_results[k].message # ""

\* create_result with an empty message, on a checker with a name, raised
C12_Witness ==
    /\ last.op = "create_result"
    /\ last.arg[2] = ""
    /\ ClassDisplayName(last.arg[1].cls) # ""
    /\ last.raised
    /\ last.ret = "message cannot be empty"

(***************************************************************************)
(* Vocabulary of the checker properties: `last` after a check() call of a  *)
(* checker of the class c, on the object subject.                          *)
(***************************************************************************)
IsCheckOf(c) == last.op = "check" /\ last.arg[1].cls = c
subject == objects[1]

\* the positions of the returned list whose details hold all the fields
FindingsWith(fields) ==
    {k \in 1..Len(last.all_results) : fields \subseteq DOMAIN last.all_results[k].details}

\* the positions of the returned list with the message
FindingsSaying(message) ==
    {k \in 1..Len(last.all_results) : last.all_results[k].message = message}

(***************************************************************************)
(* C13.  Transform tolerance, with epsilon = FLOAT_TOLERANCE: a scale      *)
(* whose components all deviate from 1 by at most epsilon gives no         *)
(* unapplied-scale finding, one with a component that deviates by more     *)
(* gives it; the same for a rotation and 0.  A deviation of exactly        *)
(* epsilon gives no finding.                                               *)
(***************************************************************************)
C13_ToleranceInclusive ==
    IsCheckOf("TransformChecker") =>
        LET scale_within ==
                \A i \in 1..3 : Abs(subject.scale[i] - One) <= FLOAT_TOLERANCE
            rotation_within ==
                \A i \in 1..3 : Abs(subject.rotation_euler[i]) <= FLOAT_TOLERANCE
        IN  /\ scale_within <=> FindingsWith({"scale", "expected"}) = {}
            /\ rotation_within <=> FindingsWith({"rotation_euler", "expected"}) = {}

(***************************************************************************)
(* C14.  Negative-scale parity: the Transform check returns the            *)
(* negative-scale finding exactly when some scale component is below zero; *)
(* its normals_inverted is true exactly when the number of negative axes   *)
(* is odd, and its negative_axes are the axes with a negative component.   *)
(***************************************************************************)
C14_NegativeScaleParity ==
    IsCheckOf("TransformChecker") =>
        LET negative == {i \in 1..3 : subject.scale[i] < 0}
            axis == <<"X", "Y", "Z">>
            found == FindingsWith({"negative_axes"})
        IN  /\ found # {} <=> negative # {}
            /\ Cardinality(found) <= 1
            /\ \A k \in found :
                   LET details == last.all_results[k].details
                   IN  /\ details.normals_inverted <=> Cardinality(negative) % 2 = 1
                       /\ Len(details.negative_axes) = Cardinality(negative)
                       /\ \A i \in 1..3 :
                              i \in negative <=> axis[i] \in Range(details.negative_axes)

\* the check of an object mirrored on two axes: a finding, no inversion
C14_Witness ==
    /\ IsCheckOf("TransformChecker")
    /\ subject.scale = <<0 - One, 0 - One, One>>
    /\ \E k \in FindingsWith({"negative_axes"}) :
           /\ ~last.all_results[k].details.normals_inverted
           /\ last.all_results[k].details.negative_axes = <<"X", "Y">>

\* the positions of the returned list with the severity
FindingsAt(severity) ==
    {k \in 1..Len(last.all_results) : last.all_results[k].severity = severity}

\* the sequence of integers s is strictly ascending
Ascending(s) == \A k \in 1..(Len(s) - 1) : s[k] < s[k + 1]

\* the indices (from 0) of the subject's material slots without a material
EmptySlots ==
    {i \in 0..(Len(subject.material_slots) - 1) :
        subject.material_slots[i + 1].material_is_none}

\* the indices of the subject's slots that hold a material no polygon refers to
UnreferencedSlots ==
    {i \in 0..(Len(subject.material_slots) - 1) :
        /\ ~subject.material_slots[i + 1].material_is_none
        /\ \A k \in 1..Len(subject.data.polygons) :
               subject.data.polygons[k].material_index # i}

(***************************************************************************)
(* C15.  Material severity classification: no slot gives one ERROR and     *)
(* nothing else; with a slot there is an ERROR exactly when every slot is  *)
(* empty; with an empty slot there is one WARNING whose indices are the    *)
(* empty slots in ascending order.                                         *)
(***************************************************************************)
C15_MaterialSeverity ==
    IsCheckOf("MaterialChecker") =>
        /\ ~last.raised
        /\ Len(subject.material_slots) = 0 =>
               /\ Len(last.all_results) = 1
               /\ last.all_results[1].severity = ERROR
        /\ Len(subject.material_slots) >= 1 =>
               /\ FindingsAt(ERROR) # {} <=>
                      EmptySlots = 0..(Len(subject.material_slots) - 1)
               /\ EmptySlots # {} =>
                      /\ Cardinality(FindingsAt(WARNING)) = 1
                      /\ \A k \in FindingsAt(WARNING) :
                             LET indices == last.all_results[k].details.empty_slot_indices
                             IN  Ascending(indices) /\ Range(indices) = EmptySlots

\* slots 0 and 2 of three are empty: a WARNING that lists both, and no ERROR
C15_Witness ==
    /\ IsCheckOf("MaterialChecker")
    /\ EmptySlots = {0, 2}
    /\ Len(subject.material_slots) = 3
    /\ FindingsAt(ERROR) = {}
    /\ \E k \in FindingsAt(WARNING) :
           last.all_results[k].details.empty_slot_indices = <<0, 2>>

(***************************************************************************)
(* C16.  Unused material slot: a mesh, whatever its polygons, with exactly *)
(* one slot that holds a material no polygon refers to gets exactly one    *)
(* INFO finding and no ERROR; in general the INFO finding lists exactly    *)
(* the slots that hold a material and are referred to by no polygon.       *)
(***************************************************************************)
C16_UnusedSlots ==
    IsCheckOf("MaterialChecker") =>
        /\ (Len(subject.material_slots) = 1 /\ UnreferencedSlots = {0}) =>
               /\ Cardinality(FindingsAt(INFO)) = 1
               /\ FindingsAt(ERROR) = {}
        /\ Len(subject.material_slots) >= 1 =>
               /\ FindingsAt(INFO) # {} <=> UnreferencedSlots # {}
               /\ \A k \in FindingsAt(INFO) :
                      Range(last.all_results[k].details.unused_slot_indices)
                          = UnreferencedSlots

(***************************************************************************)
(* C17.  UV completeness: on a mesh with a UV layer (and an active one, so *)
(* that there is a count to compare) the "incomplete data" WARNING is      *)
(* returned exactly when the active layer's data count differs from the    *)
(* mesh's loop count, and then its details carry the expected and the      *)
(* actual count; a mesh without a UV layer gets one ERROR and nothing      *)
(* else.                                                                   *)
(***************************************************************************)
C17_UVCompleteness ==
    IsCheckOf("UVChecker") =>
        LET mesh == subject.data
            incomplete == FindingsSaying("UV map has incomplete data")
        IN  /\ ~last.raised
            /\ Len(mesh.uv_layers) = 0 =>
                   /\ Len(last.all_results) = 1
                   /\ last.all_results[1].severity = ERROR
            /\ (Len(mesh.uv_layers) >= 1 /\ mesh.uv_active # 0) =>
                   /\ incomplete # {} <=>
                          mesh.uv_layers[mesh.uv_active].data_len # mesh.loops
                   /\ \A k \in incomplete :
                          /\ last.all_results[k].severity = WARNING
                          /\ {"expected", "actual"}
                                 \subseteq DOMAIN last.all_results[k].details
                          /\ last.all_results[k].details.expected = mesh.loops
                          /\ last.all_results[k].details.actual
                                 = mesh.uv_layers[mesh.uv_active].data_len

\* the indices (from 0) of the subject's polygons
FaceIndices == 0..(Len(subject.data.polygons) - 1)

\* the indices of the polygons with more than 4 vertices, of those with an
\* area below the threshold of the instance called, and of those whose
\* normal points at the centre of the mesh
ManySided == {i \in FaceIndices : subject.data.polygons[i + 1].loop_total > 4}
Tiny ==
    {i \in FaceIndices :
        subject.data.polygons[i + 1].area < small_face_threshold(last.arg[1])}
FacingCentre == {i \in FaceIndices : subject.data.polygons[i + 1].toward_center > 700}

\* the smaller of two numbers
Smaller(a, b) == IF a < b THEN a ELSE b

\* the cap of the checker instance that was called
Cap == max_reported_faces(last.arg[1])

(***************************************************************************)
(* C18.  Truncated listing: for each capped listing (n-gons, small faces,  *)
(* potentially inverted faces) and any cap K, a finding's face_indices has *)
(* min(true count, K) entries and its total is the exact number of         *)
(* offending polygons.                                                     *)
(***************************************************************************)
C18_TruncatedListing ==
    /\ IsCheckOf("GeometryChecker") =>
           /\ \A k \in FindingsWith({"total_ngons"}) :
                  LET details == last.all_results[k].details
                  IN  /\ Len(details.face_indices)
                             = Smaller(Cardinality(ManySided), Cap)
                      /\ details.total_ngons = Cardinality(ManySided)
           /\ \A k \in FindingsWith({"total_small_faces"}) :
                  LET details == last.all_results[k].details
                  IN  /\ Len(details.face_indices)
                             = Smaller(Cardinality(Tiny), Cap)
                      /\ details.total_small_faces = Cardinality(Tiny)
    /\ IsCheckOf("FaceOrientationChecker") =>
           \A k \in FindingsWith({"potentially_inverted_count"}) :
               LET details == last.all_results[k].details
               IN  /\ Len(details.face_indices)
                          = Smaller(Cardinality(FacingCentre), Cap)
                   /\ details.potentially_inverted_count
                          = Cardinality(FacingCentre)

\* the listing s holds the first entries of the set of indices, in order
FirstOf(s, indices) ==
    /\ Ascending(s)
    /\ Range(s) \subseteq indices
    /\ \A i \in indices \ Range(s) : \A k \in 1..Len(s) : s[k] < i

C20_FaceOrientationSeverity ==
    IsCheckOf("FaceOrientationChecker") =>
        LET f == Cardinality(FacingCentre)
            n == Len(subject.data.polygons)
        IN  /\ ~last.raised
            /\ f = 0 => last.all_results = <<>>
            /\ f > 0 =>
                   /\ Len(last.all_results) = 1
                   /\ last.all_results[1].severity \in {INFO, WARNING}
                   /\ last.all_results[1].severity = INFO <=>
                          (f < 5 /\ 100 * f < 5 * n)
                   /\ last.all_results[1].details.potentially_inverted_count = f
                   /\ last.all_results[1].details.total_faces = n

\* 4 of 80 faces flagged: fewer than 5, but a ratio of exactly 0.05
C20_Witness ==
    /\ IsCheckOf("FaceOrientationChecker")
    /\ Cardinality(FacingCentre) = 4
    /\ Len(subject.data.polygons) = 80
    /\ Len(last.all_results) = 1
    /\ last.all_results[1].severity = WARNING

(***************************************************************************)
(* The add-on as a whole (__init__.py, operators/select_problem.py,        *)
(* ui/panel.py): its register() and unregister(), the operators that read  *)
(* the stored results, and what the user does to the scene in between.     *)
(* An object here also has the field `active`: it is                       *)
(* bpy.context.view_layer.objects.active.                                  *)
(***************************************************************************)
MaxIndex == 2

\* a report of an operator that ran no checker
OperatorCall(op, arg, ret, level, text) ==
    [NoCall EXCEPT !.op = op, !.arg = arg, !.ret = ret,
                   !.reports = <<[level |-> level, text |-> text]>>]

\* bpy.data.objects.get(name): the position of the object, 0 for None
ObjectsGet(name) ==
    IF \E k \in 1..Len(objects) : objects[k].name = name
    THEN CHOOSE k \in 1..Len(objects) : objects[k].name = name
    ELSE 0

\* obj.select_set(True): whether the object is selected after it.  The
\* host sets the flag on an object that is selectable in the view layer; an
\* object hidden there (visible_get() is False) may be left unselected, and
\* the call returns without an error either way.
select_set(obj) == IF obj.visible THEN {TRUE} ELSE {TRUE, FALSE}

\* select_object(obj) of utils/helpers.py, obj at position at: deselect
\* all, obj.select_set(True) with the effect `selected`, make obj the
\* active object
select_object(at, selected) ==
    [k \in 1..Len(objects) |->
        [objects[k] EXCEPT !.selected = (k = at /\ selected), !.active = (k = at)]]

\* focus_object(obj): select_object, then frame the selection in the 3D
\* views, which writes nothing the model holds
focus_object(at, selected) == select_object(at, selected)

\* UNITY_VALIDATOR_OT_select_problem.execute
SelectProblem(index) ==
    LET results == unity_validator_results
    IN  /\ IF index < 0 \/ index >= Len(results)
           THEN /\ last' = OperatorCall("select_problem", <<index>>, "CANCELLED",
                                        "WARNING", "Invalid result index")
                /\ UNCHANGED objects
           ELSE LET obj_name == results[index + 1].object_name
                    obj == ObjectsGet(obj_name)
                IN  IF obj = 0
                    THEN /\ last' = OperatorCall("select_problem", <<index>>,
                                        "CANCELLED", "WARNING",
                                        "Object '" \o obj_name \o "' not found")
                         /\ UNCHANGED objects
                    ELSE /\ \E selected \in select_set(objects[obj]) :
                                objects' = focus_object(obj, selected)
                         /\ last' = OperatorCall("select_problem", <<index>>,
                                        "FINISHED", "INFO", "Selected: " \o obj_name)
        /\ UNCHANGED <<_checkers, _checker_classes, unity_validator_results, host>>

\* UNITY_VALIDATOR_OT_clear_results.execute
ClearResults ==
    /\ unity_validator_results' = <<>>
    /\ unity_validator_result_index' = 0
    /\ last' = OperatorCall("clear_results", <<>>, "FINISHED", "INFO",
                            "Validation results cleared")
    /\ UNCHANGED <<objects, _checkers, _checker_classes, addon_registered>>

\* the panel's result list (template_list on unity_validator_result_index):
\* the user picks a row
PickResult(index) ==
    /\ unity_validator_result_index' = index
    /\ last' = [NoCall EXCEPT !.op = "pick_result", !.arg = <<index>>]
    /\ UNCHANGED <<objects, _checkers, _checker_classes, unity_validator_results,
                   addon_registered>>

\* the user deletes the object of that name: bpy.data.objects loses it
DeleteObject(name) ==
    /\ ObjectsGet(name) # 0
    /\ LET Others(obj) == obj.name # name
       IN  objects' = SelectSeq(objects, Others)
    /\ last' = [NoCall EXCEPT !.op = "delete_object", !.arg = <<name>>]
    /\ UNCHANGED <<_checkers, _checker_classes, unity_validator_results, host>>

\* unregister() of the add-on that leaves the registry as it is
AddonUnregister_KeepsCheckers ==
    IF ~addon_registered
    THEN /\ last' = [NoCall EXCEPT !.op = "addon_unregister", !.raised = TRUE]
         /\ UNCHANGED <<objects, _checkers, _checker_classes,
                        unity_validator_results, host>>
    ELSE /\ addon_registered' = FALSE
         /\ last' = [NoCall EXCEPT !.op = "addon_unregister"]
         /\ UNCHANGED <<objects, _checkers, _checker_classes,
                        unity_validator_results, unity_validator_result_index>>

\* unregister() of the add-on: ui.unregister() deletes the two scene
\* properties and unregisters the classes, operators.unregister() its
\* classes, checkers.unregister() does nothing, core.unregister() calls
\* CheckerRegistry.clear().  Called when the add-on is not registered, the
\* first `del` of ui.unregister() raises and nothing after it runs.
AddonUnregister ==
    IF ~addon_registered
    THEN /\ last' = [NoCall EXCEPT !.op = "addon_unregister", !.raised = TRUE]
         /\ UNCHANGED <<objects, _checkers, _checker_classes,
                        unity_validator_results, host>>
    ELSE /\ addon_registered' = FALSE
         /\ _checkers' = <<>>
         /\ _checker_classes' = <<>>
         /\ last' = [NoCall EXCEPT !.op = "addon_unregister"]
         /\ UNCHANGED <<objects, unity_validator_results,
                        unity_validator_result_index>>

\* register() of the add-on: core.register() and checkers.register() do
\* nothing, operators.register() and ui.register() register the classes and
\* define the two scene properties anew; whether the scene then shows what
\* was stored under them before is the host's choice.  Called when the
\* add-on is registered, bpy.utils.register_class raises and nothing after
\* it runs.
AddonRegister ==
    IF addon_registered
    THEN /\ last' = [NoCall EXCEPT !.op = "addon_register", !.raised = TRUE]
         /\ UNCHANGED <<objects, _checkers, _checker_classes,
                        unity_validator_results, host>>
    ELSE /\ addon_registered' = TRUE
         /\ \/ UNCHANGED <<unity_validator_results, unity_validator_result_index>>
            \/ /\ unity_validator_results' = <<>>
               /\ unity_validator_result_index' = 0
         /\ last' = [NoCall EXCEPT !.op = "addon_register"]
         /\ UNCHANGED <<objects, _checkers, _checker_classes>>

\* the checker classes checkers/__init__.py imports, in its order, that the
\* model has a check() for
ImportedClasses ==
    <<"TransformChecker", "MaterialChecker", "UVChecker", "GeometryChecker",
      "FaceOrientationChecker">>

\* a scene object: a mesh or a curve with the test object's plain parts
SceneObject(name, type, visible, selected, scale, data, props) ==
    [TestObject(scale, <<0, 0, 0>>, PlainSlots, data) EXCEPT
        !.name = name, !.type = type, !.visible = visible, !.props = props]
    @@ [selected |-> selected, active |-> selected]

\* the cube: sound and mirrored, without mesh data, or excluded from the
\* transform check
SceneCubes ==
    {SceneObject("Cube", "MESH", TRUE, FALSE, <<0 - One, One, One>>, PlainMesh, NoProps),
     SceneObject("Cube", "MESH", TRUE, FALSE, <<One, One, One>>,
                 [PlainMesh EXCEPT !.is_none = TRUE], NoProps),
     SceneObject("Cube", "MESH", TRUE, FALSE, <<0 - One, One, One>>, PlainMesh,
                 OneProp(PropName(ExclusionPrefix, get_id("TransformChecker")), 1))}

\* a hidden pentagon with a stale UV layer
ScenePlane ==
    SceneObject("Plane", "MESH", FALSE, FALSE, <<One, One, One>>,
                MeshData(<<Face(5, 100000, -1000, 0)>>, 5, <<UVLayer("UVMap", 4)>>, 1),
                NoProps)

ScenePath ==
    SceneObject("Path", "CURVE", TRUE, TRUE, <<One, One, One>>,
                [PlainMesh EXCEPT !.is_none = TRUE], NoProps)

\* the state after Blender has imported the package and called register()
AddonInit ==
    /\ \E cube \in SceneCubes : objects = <<cube, ScenePath, ScenePlane>>
    /\ _checkers = [k \in 1..Len(ImportedClasses) |->
                       [key |-> get_id(ImportedClasses[k]),
                        value |-> NewInstance(ImportedClasses[k])]]
    /\ _checker_classes = [k \in 1..Len(ImportedClasses) |->
                              [key |-> get_id(ImportedClasses[k]),
                               value |-> ImportedClasses[k]]]
    /\ unity_validator_results = <<>>
    /\ unity_validator_result_index = 0
    /\ addon_registered = TRUE
    /\ last = NoCall

\* the operators exist while the add-on is registered
AddonNext ==
    \/ AddonUnregister
    \/ AddonRegister
    \/ /\ addon_registered
       /\ \E selected_only \in BOOLEAN, visible_only \in BOOLEAN :
              Validate(selected_only, visible_only)
    \/ /\ addon_registered
       /\ \E index \in -1..MaxIndex : SelectProblem(index)
    \/ /\ addon_registered
       /\ ClearResults
    \/ /\ addon_registered
       /\ \E index \in 0..1 : PickResult(index)
    \/ \E name \in {"Cube", "Plane"} : DeleteObject(name)

AddonSpec == AddonInit /\ [][AddonNext]_vars

(***************************************************************************)
(* C21.  Subjects are read-only for the run: a validate call, completed or *)
(* cancelled, with or without a fault of a checker, leaves every object's  *)
(* transform, mesh data, material slots and property bag as they were;     *)
(* of the state it writes the stored result list alone.                    *)
(***************************************************************************)
C21_SubjectsReadOnly ==
    [][last'.op = "validate" =>
           /\ Len(objects') = Len(objects)
           /\ \A k \in 1..Len(objects) :
                  /\ objects'[k].name = objects[k].name
                  /\ objects'[k].scale = objects[k].scale
                  /\ objects'[k].rotation_euler = objects[k].rotation_euler
                  /\ objects'[k].data = objects[k].data
                  /\ objects'[k].material_slots = objects[k].material_slots
                  /\ objects'[k].props = objects[k].props
           /\ objects' = objects
           /\ \A obj \in Range(last'.subjects) : obj \in Range(objects')
           /\ _checkers' = _checkers
           /\ _checker_classes' = _checker_classes
           /\ unity_validator_result_index' = unity_validator_result_index
           /\ addon_registered' = addon_registered]_vars

\* a completed run over the cube without mesh data and the hidden plane:
\* a checker faulted, others returned findings, and an exclusion flag or a
\* negative scale is still on each subject
C21_Witness ==
    /\ IsRun
    /\ Len(last.subjects) = 2
    /\ \E k \in 1..Len(last.reports) :
           last.reports[k].text =
               "Checker 'Material' failed on 'Cube': 'NoneType' object has no attribute 'polygons'"
    /\ unity_validator_results # <<>>
    /\ \A obj \in Range(last.subjects) : obj \in Range(objects)

\* the sequences of the sequence s, one after the other
RECURSIVE Flatten(_)
Flatten(s) == IF s = <<>> THEN <<>> ELSE Head(s) \o Flatten(Tail(s))

\* what the pair (obj, checker) adds to the results of a run
Contribution(obj, checker) ==
    IF <<obj, checker>> \in SoundPairs THEN check(checker, obj).results ELSE <<>>

\* the results of a run, subject by subject and checker by checker
SubjectMajor(subjects, checkers) ==
    Flatten([i \in 1..Len(subjects) |->
                Flatten([j \in 1..Len(checkers) |->
                            Contribution(subjects[i], checkers[j])])])

(***************************************************************************)
(* C22.  Result replacement and ordering: after a completed run the stored *)
(* result list holds one item per aggregated result of that run and        *)
(* nothing of an earlier run, in aggregation order: subjects in the order  *)
(* supplied, within a subject the checkers in get_all() order, and each    *)
(* checker's results in the order it returned them.                        *)
(***************************************************************************)
C22_ReplacedInOrder ==
    IsRun =>
        /\ last.subjects = get_mesh_objects(last.arg[1], last.arg[2])
        /\ last.checkers = get_all
        /\ last.all_results = SubjectMajor(last.subjects, last.checkers)
        /\ Len(unity_validator_results) = Len(last.all_results)
        /\ \A k \in 1..Len(last.all_results) :
               /\ unity_validator_results[k].checker_name
                      = last.all_results[k].checker_name
               /\ unity_validator_results[k].object_name
                      = last.all_results[k].object_name
               /\ unity_validator_results[k].message = last.all_results[k].message
               /\ unity_validator_results[k].severity
                      = SeverityName(last.all_results[k].severity)

\* a second run right after a first over two subjects and two checkers:
\* the list is as long as the first run's, not twice as long
C22_Witness ==
    /\ IsRun
    /\ last.prev # <<>>
    /\ Len(last.subjects) = 2
    /\ Len(last.checkers) = 2
    /\ Len(last.prev[1]) >= 3
    /\ Len(unity_validator_results) = Len(last.prev[1])
    /\ unity_validator_results[1].object_name = "Cube"
    /\ unity_validator_results[Len(unity_validator_results)].object_name = "Plane"

(***************************************************************************)
(* C23.  Registry lifecycle across teardown: the add-on's unregister()     *)
(* empties the registry, the add-on's register() adds no checker; with no  *)
(* other registration the registry stays empty from then on, and a         *)
(* validate call with at least one subject is cancelled with               *)
(* "No checkers registered".                                               *)
(***************************************************************************)
C23_TeardownLifecycle ==
    /\ []((IsValidate /\ _checkers = <<>> /\ last.subjects # <<>>) =>
              /\ last.ret = "CANCELLED"
              /\ last.reports = <<[level |-> "ERROR", text |-> "No checkers registered"]>>)
    /\ [][/\ (last'.op = "addon_unregister" /\ ~last'.raised) =>
                 (_checkers' = <<>> /\ _checker_classes' = <<>>)
          /\ last'.op = "addon_register" =>
                 (_checkers' = _checkers /\ _checker_classes' = _checker_classes)
          /\ (_checkers = <<>> /\ _checker_classes = <<>>) =>
                 (_checkers' = <<>> /\ _checker_classes' = <<>>)]_vars

\* the add-on is registered again after a teardown, and a run over the
\* cube finds no checker
C23_Witness ==
    /\ IsValidate
    /\ addon_registered
    /\ _checkers = <<>>
    /\ _checker_classes = <<>>
    /\ Len(last.subjects) >= 1
    /\ last.ret = "CANCELLED"
    /\ last.reports[1].text = "No checkers registered"

\* the keys of a dict
KeySet(d) == {d[i].key : i \in 1..Len(d)}

(***************************************************************************)
(* C24.  Registry consistency: after any sequence of register, unregister  *)
(* and clear calls, failed registrations among them, the instance map and  *)
(* the class map have the same keys, each stored instance is an instance   *)
(* of the class stored under its id, and count() is the length of          *)
(* get_all() and of get_ids().                                             *)
(***************************************************************************)
C24_RegistryConsistent ==
    /\ KeySet(_checkers) = KeySet(_checker_classes)
    /\ Cardinality(KeySet(_checkers)) = Len(_checkers)
    /\ Cardinality(KeySet(_checker_classes)) = Len(_checker_classes)
    /\ \A id \in KeySet(_checkers) :
           \A i \in Positions(_checkers, id), j \in Positions(_checker_classes, id) :
               _checkers[i].value.cls = _checker_classes[j].value
    /\ count = Len(get_all)
    /\ count = Len(get_ids)
    /\ count = Cardinality(KeySet(_checkers))

\* a registration has just failed in a registry of two checkers, one of
\* them stored over another class of the same id
C24_Witness ==
    /\ last.op = "register"
    /\ last.raised
    /\ count = 2
    /\ \E i \in 1..Len(_checkers) :
           /\ _checkers[i].key = get_id("MaterialChecker")
           /\ _checkers[i].value.cls = "Material"

(***************************************************************************)
(* execute() of the validate operator pair by pair, for what happens to    *)
(* the registry while a run is in progress: a check() may itself call      *)
(* register, unregister or clear.  A run in progress is `last` with        *)
(* ret = "RUNNING" and the field `at`, the pair <<i, j>> the two loops     *)
(* come to next.                                                           *)
(***************************************************************************)
RunInProgress == last.op = "validate" /\ last.ret = "RUNNING"

\* execute up to the loops: the two early returns, else the locals
\* `objects` and `checkers` (the get_all() copy) and an empty all_results
BeginRun(selected_only, visible_only) ==
    LET objs == get_mesh_objects(selected_only, visible_only)
        checkers == get_all
        call == [NoCall EXCEPT !.op = "validate",
                               !.arg = <<selected_only, visible_only>>,
                               !.subjects = objs]
    IN  /\ ~RunInProgress
        /\ IF Len(objs) = 0
           THEN last' = [call EXCEPT
                           !.ret = "CANCELLED",
                           !.reports = <<[level |-> "WARNING",
                                          text |-> "No mesh objects to validate"]>>]
           ELSE IF Len(checkers) = 0
           THEN last' = [call EXCEPT
                           !.ret = "CANCELLED",
                           !.reports = <<[level |-> "ERROR",
                                          text |-> "No checkers registered"]>>]
           ELSE last' = [call EXCEPT !.checkers = checkers, !.ret = "RUNNING"]
                            @@ [at |-> <<1, 1>>]
        /\ UNCHANGED <<objects, _checkers, _checker_classes,
                       unity_validator_results, host>>

\* the pair after <<i, j>> in `for obj in objects: for checker in checkers:`
NextPair(at, checkers) ==
    IF at[2] < Len(checkers) THEN <<at[1], at[2] + 1>> ELSE <<at[1] + 1, 1>>

\* one pass of the loop body that takes its checker from the registry as
\* it is now
RunPair_ReadsRegistry ==
    /\ RunInProgress
    /\ last.at[1] <= Len(last.subjects)
    /\ last' = IF last.at[2] <= Len(get_all)
               THEN [LoopBody(last, last.subjects[last.at[1]], get_all[last.at[2]])
                        EXCEPT !.at = NextPair(last.at, get_all)]
               ELSE [last EXCEPT !.at = NextPair(last.at, get_all)]
    /\ UNCHANGED <<objects, _checkers, _checker_classes,
                   unity_validator_results, host>>

\* one pass of the loop body, on the pair the loops have come to
RunPair ==
    /\ RunInProgress
    /\ last.at[1] <= Len(last.subjects)
    /\ last' = [LoopBody(last, last.subjects[last.at[1]], last.checkers[last.at[2]])
                   EXCEPT !.at = NextPair(last.at, last.checkers)]
    /\ UNCHANGED <<objects, _checkers, _checker_classes,
                   unity_validator_results, host>>

\* execute after the loops: _store_results and the summary report
EndRun ==
    /\ RunInProgress
    /\ last.at[1] > Len(last.subjects)
    /\ unity_validator_results' = _store_results(last.all_results)
    /\ last' = [last EXCEPT
                  !.ret = "FINISHED",
                  !.counts = SummaryCounts(last.all_results),
                  !.reports = Append(@, SummaryReport(last.all_results))]
    /\ UNCHANGED <<objects, _checkers, _checker_classes, host>>

\* CheckerRegistry.register(checker_class), called by a check() of the run
\* in progress
RegisterInRun(checker_class) ==
    /\ RunInProgress
    /\ ~InitRaises(checker_class)
    /\ RegisterStore(get_id(checker_class), NewInstance(checker_class), checker_class)
    /\ UNCHANGED <<objects, unity_validator_results, host, last>>

\* CheckerRegistry.unregister(checker_id), called by a check() of the run
UnregisterInRun(checker_id) ==
    /\ RunInProgress
    /\ DictHas(_checkers, checker_id)
    /\ _checkers' = DictDel(_checkers, checker_id)
    /\ _checker_classes' = DictDel(_checker_classes, checker_id)
    /\ UNCHANGED <<objects, unity_validator_results, host, last>>

\* CheckerRegistry.clear(), called by a check() of the run
ClearInRun ==
    /\ RunInProgress
    /\ _checkers' = <<>>
    /\ _checker_classes' = <<>>
    /\ UNCHANGED <<objects, unity_validator_results, host, last>>

\* the classes and ids the calls made during a run name
InRunClasses == {"TransformChecker", "UVChecker", "Material"}
InRunIds == {get_id(cls) : cls \in InRunClasses \cup {"MaterialChecker"}}

\* the add-on's scene, with the transform and the material checker
\* registered
SnapshotInit ==
    /\ \E cube \in SceneCubes : objects = <<cube, ScenePath, ScenePlane>>
    /\ _checkers = [k \in 1..2 |->
                       [key |-> get_id(ImportedClasses[k]),
                        value |-> NewInstance(ImportedClasses[k])]]
    /\ _checker_classes = [k \in 1..2 |->
                              [key |-> get_id(ImportedClasses[k]),
                               value |-> ImportedClasses[k]]]
    /\ unity_validator_results = <<>>
    /\ unity_validator_result_index = 0
    /\ addon_registered = TRUE
    /\ last = NoCall

SnapshotNext ==
    \/ \E selected_only \in {FALSE}, visible_only \in BOOLEAN :
           BeginRun(selected_only, visible_only)
    \/ RunPair
    \/ EndRun
    \/ \E checker_class \in InRunClasses : RegisterInRun(checker_class)
    \/ \E checker_id \in InRunIds : UnregisterInRun(checker_id)
    \/ ClearInRun

SnapshotSpec == SnapshotInit /\ [][SnapshotNext]_vars

\* the pairs of subjects and checkers, subject by subject
PairsInOrder(subjects, checkers) ==
    Flatten([i \in 1..Len(subjects) |->
                [j \in 1..Len(checkers) |-> <<subjects[i], checkers[j]>>]])

\* the pairs the contract makes eligible, as check() is called on them
CallsInOrder(subjects, checkers) ==
    LET Eligible(p) == is_supported(p[2], p[1]) /\ ~is_excluded(p[2], p[1])
        pairs == SelectSeq(PairsInOrder(subjects, checkers), Eligible)
    IN  [k \in 1..Len(pairs) |-> <<pairs[k][1].name, pairs[k][2]>>]

(***************************************************************************)
(* C25.  Run snapshot: the checkers of a run and their order are those of  *)
(* the get_all() copy taken when the run starts; a register, unregister or *)
(* clear made while the run is in progress changes neither the (subject,   *)
(* checker) pairs the run evaluates nor their order, and the next run      *)
(* sees it.                                                                *)
(***************************************************************************)
C25_RunSnapshot ==
    /\ [](IsRun => last.calls = CallsInOrder(last.subjects, last.checkers))
    /\ [][/\ (~RunInProgress /\ RunInProgress') => last'.checkers = get_all
          /\ (RunInProgress /\ last'.op = "validate") =>
                 /\ last'.checkers = last.checkers
                 /\ last'.subjects = last.subjects]_vars

\* a completed run whose checkers are not the registry's any more, after
\* check() ran on four pairs
C25_Witness ==
    /\ IsRun
    /\ last.checkers # get_all
    /\ Len(get_all) = 3
    /\ Len(last.checkers) = 2
    /\ Len(last.calls) = 4

(***************************************************************************)
(* C26.  A cancelled validate run, for want of a subject or of a checker,  *)
(* leaves the stored result list exactly as it was: what an earlier        *)
(* completed run stored is still there.                                    *)
(***************************************************************************)
C26_CancelKeepsResults ==
    [][(last'.op = "validate" /\ last'.ret = "CANCELLED") =>
           unity_validator_results' = unity_validator_results]_vars

\* cancelled for want of a checker, with the findings of an earlier run on
\* the cube still stored
C26_Witness ==
    /\ IsValidate
    /\ last.ret = "CANCELLED"
    /\ last.reports[1].text = "No checkers registered"
    /\ Len(unity_validator_results) >= 1
    /\ unity_validator_results[1].object_name = "Cube"

\* how many of the results the sound pairs of the run returned are at sev
Aggregated(sev) ==
    LET returned == SubjectMajor(last.subjects, last.checkers)
    IN  Cardinality({k \in 1..Len(returned) : returned[k].severity = sev})

(***************************************************************************)
(* C27.  Faults are not counted: a fault of a pair adds nothing to the     *)
(* severity counts and does not change the level of the final report,      *)
(* which follow from the aggregated results alone; a run in which every    *)
(* eligible pair faulted returns FINISHED with the final report            *)
(* "Validation complete: No issues found!".                                *)
(***************************************************************************)
C27_FaultsNotCounted ==
    IsRun =>
        /\ last.counts = <<Aggregated(ERROR), Aggregated(WARNING), Aggregated(INFO)>>
        /\ FinalReport.level =
               IF Aggregated(ERROR) > 0 THEN "ERROR"
               ELSE IF Aggregated(WARNING) > 0 THEN "WARNING"
               ELSE "INFO"
        /\ Len(last.reports) = Cardinality(FaultedPairs) + 1
        /\ (FaultedPairs # {} /\ FaultedPairs = EligiblePairs) =>
               FinalReport = [level |-> "INFO",
                              text |-> "Validation complete: No issues found!"]

\* the one eligible pair of the run faulted
C27_Witness ==
    /\ IsRun
    /\ Cardinality(EligiblePairs) = 1
    /\ FaultedPairs = EligiblePairs
    /\ last.counts = <<0, 0, 0>>
    /\ FinalReport.text = "Validation complete: No issues found!"

(***************************************************************************)
(* C28.  With the default Transform configuration, an object with a        *)
(* negative scale component gets, from one check() call, the               *)
(* negative-scale finding at ERROR and then the unapplied-scale finding at *)
(* WARNING; the negative-scale finding is at ERROR whether the number of   *)
(* negative axes is odd or even.                                           *)
(***************************************************************************)
C28_NegativeScaleTwice ==
    (IsCheckOf("TransformChecker") /\ \E i \in 1..3 : subject.scale[i] < 0) =>
        /\ ~last.raised
        /\ Len(last.all_results) >= 2
        /\ DOMAIN last.all_results[1].details
               = {"scale", "negative_axes", "normals_inverted"}
        /\ last.all_results[1].severity = ERROR
        /\ DOMAIN last.all_results[2].details = {"scale", "expected"}
        /\ last.all_results[2].severity = WARNING
        /\ Cardinality(FindingsWith({"negative_axes"})) = 1
        /\ Cardinality(FindingsWith({"scale", "expected"})) = 1

\* mirrored on X alone, every component of size 1: ERROR, then WARNING
C28_Witness ==
    /\ IsCheckOf("TransformChecker")
    /\ subject.scale = <<0 - One, One, One>>
    /\ Len(last.all_results) >= 2
    /\ last.all_results[1].severity = ERROR
    /\ last.all_results[1].details.normals_inverted
    /\ last.all_results[2].severity = WARNING
    /\ last.all_results[2].message = "Unapplied scale: (-1.000, 1.000, 1.000)"

(***************************************************************************)
(* C29.  When an object has at least one material slot and every slot is   *)
(* empty, one Material check() returns exactly two findings: the           *)
(* empty-slot WARNING that lists every slot index, then the all-empty      *)
(* ERROR; there is no unused-slot INFO.                                    *)
(***************************************************************************)
C29_AllSlotsEmpty ==
    (/\ IsCheckOf("MaterialChecker")
     /\ Len(subject.material_slots) >= 1
     /\ \A k \in 1..Len(subject.material_slots) :
            subject.material_slots[k].material_is_none) =>
        /\ ~last.raised
        /\ Len(last.all_results) = 2
        /\ last.all_results[1].severity = WARNING
        /\ last.all_results[1].details.empty_slot_indices
               = [k \in 1..Len(subject.material_slots) |-> k - 1]
        /\ last.all_results[1].details.total_slots = Len(subject.material_slots)
        /\ last.all_results[2].severity = ERROR
        /\ last.all_results[2].message = "All material slots are empty"
        /\ FindingsAt(INFO) = {}
        /\ FindingsWith({"unused_slot_indices"}) = {}

\* three empty slots on a mesh whose faces use slots 0 and 1
C29_Witness ==
    /\ IsCheckOf("MaterialChecker")
    /\ subject.material_slots = <<EmptySlot, EmptySlot, EmptySlot>>
    /\ Len(subject.data.polygons) = 2
    /\ Len(last.all_results) = 2
    /\ last.all_results[1].message = "Empty material slot(s): 0, 1, 2"
    /\ last.all_results[2].severity = ERROR

\* the object of that name is the only selected object and the active one
OnlySelected(objs, name) ==
    \A k \in 1..Len(objs) :
        /\ objs[k].selected <=> objs[k].name = name
        /\ objs[k].active <=> objs[k].name = name

(***************************************************************************)
(* C30.  select_problem is safe after any sequence of validate runs,       *)
(* clear_results and object deletions: for any index i it returns          *)
(* CANCELLED and leaves the selection as it is when i < 0, when i is not   *)
(* below the length of the stored list, or when no object has the stored   *)
(* name; otherwise it returns FINISHED and the object named by results[i]  *)
(* is the only selected object and the active object.                      *)
(***************************************************************************)
C30_SelectProblemSafe ==
    [][last'.op = "select_problem" =>
           LET i == last'.arg[1]
               results == unity_validator_results
           IN  /\ ~last'.raised
               /\ unity_validator_results' = results
               /\ IF \/ i < 0
                     \/ i >= Len(results)
                     \/ \A k \in 1..Len(objects) :
                            objects[k].name # results[i + 1].object_name
                  THEN /\ last'.ret = "CANCELLED"
                       /\ objects' = objects
                  ELSE /\ last'.ret = "FINISHED"
                       /\ Len(objects') = Len(objects)
                       /\ OnlySelected(objects', results[i + 1].object_name)]_vars

====
